---- MODULE Spec2Model ----
(***************************************************************************)
(* Model of japecheck, the client/server parity analyzer of                *)
(* go.sia.tech/jape (analyzer.go).                                         *)
(*                                                                         *)
(* Strings are sequences of one-character strings, so that Split, Join,    *)
(* HasPrefix, Count and TrimPrefix are computed as package strings does.   *)
(* A Go type is a record [d, b]: b is the base type's name and d the       *)
(* number of pointer stars in front of it.                                 *)
(***************************************************************************)
EXTENDS Integers, Sequences, FiniteSets, TLC

(***************************************************************************)
(* Bounds of the model.                                                    *)
(***************************************************************************)
\* number of key/value elements of the server's route map literal
MaxRoutes == 2
\* number of jape.Client call expressions in the client file
MaxCalls == 2

(***************************************************************************)
(* go/types, as far as the analyzer uses it.                               *)
(***************************************************************************)
\* types.Typ[types.UntypedNil]
UntypedNil == [d |-> 0, b |-> "untyped nil"]
\* a nil types.Type (a field of serverRoute or serverParam never assigned)
NilType == [d |-> 0, b |-> "<nil>"]
\* a nil ast.Expr (a field of clientRoute never assigned)
NoExpr == [d |-> 0, b |-> "<no expr>"]

TString == [d |-> 0, b |-> "string"]
TInt == [d |-> 0, b |-> "int"]

NewPointer(t) == [d |-> t.d + 1, b |-> t.b]

isPtr(t) == t.d > 0

Identical(x, y) == x = y

(***************************************************************************)
(* Package strings on sequences of characters.                             *)
(***************************************************************************)
RECURSIVE SplitFrom(_, _, _, _)
SplitFrom(s, sep, i, cur) ==
    IF i > Len(s) THEN <<cur>>
    ELSE IF s[i] = sep THEN <<cur>> \o SplitFrom(s, sep, i + 1, <<>>)
    ELSE SplitFrom(s, sep, i + 1, Append(cur, s[i]))

Split(s, sep) == SplitFrom(s, sep, 1, <<>>)

RECURSIVE Join(_, _)
Join(parts, sep) ==
    IF Len(parts) = 0 THEN <<>>
    ELSE IF Len(parts) = 1 THEN parts[1]
    ELSE parts[1] \o <<sep>> \o Join(Tail(parts), sep)

HasPrefix(s, c) == Len(s) > 0 /\ s[1] = c

\* strings.Count(s, ab) for a two-character substring of distinct characters
Count2(s, a, b) ==
    Cardinality({i \in 1..(Len(s) - 1) : s[i] = a /\ s[i + 1] = b})

\* strings.Index(s, c), 1-based; 0 stands for Go's -1
Index(s, c) ==
    IF \E i \in 1..Len(s) : s[i] = c
    THEN CHOOSE i \in 1..Len(s) : s[i] = c /\ \A j \in 1..(i - 1) : s[j] # c
    ELSE 0

\* strings.Index(s, ab), 1-based; 0 stands for Go's -1
Index2(s, a, b) ==
    LET hits == {i \in 1..(Len(s) - 1) : s[i] = a /\ s[i + 1] = b}
    IN IF hits = {} THEN 0 ELSE CHOOSE i \in hits : \A j \in hits : i <= j

TrimPrefix(s, p) ==
    IF Len(p) <= Len(s) /\ SubSeq(s, 1, Len(p)) = p
    THEN SubSeq(s, Len(p) + 1, Len(s))
    ELSE s

\* the two characters every placeholder is rewritten to
Wildcard == <<"%", "s">>

(***************************************************************************)
(* Path expressions of the analyzed source (go/ast).                       *)
(***************************************************************************)
\* *ast.BasicLit holding the string s
Lit(s) == [t |-> "lit", s |-> s]
\* *ast.BinaryExpr with Op == token.ADD
Add(x, y) == [t |-> "add", X |-> x, Y |-> y]
\* *ast.CallExpr of fmt.Sprintf: f is Args[0], args the types of Args[1:]
Sprintf(f, args) == [t |-> "sprintf", f |-> f, args |-> args]
\* *ast.Ident
Ident == [t |-> "ident"]
\* *ast.CallExpr of any other function
OtherCall == [t |-> "call"]

RECURSIVE evalConstString(_)
evalConstString(expr) ==
    CASE expr.t = "lit" -> expr.s
      [] expr.t = "add" -> evalConstString(expr.X) \o evalConstString(expr.Y)
      [] expr.t = "sprintf" -> evalConstString(expr.f)
      [] expr.t = "call" -> Wildcard
      [] expr.t = "ident" -> Wildcard

(***************************************************************************)
(* Diagnostics.  pos names the source construct: <<"elt", i>> is the i-th  *)
(* element of the route map, <<"elt", i, k>> the k-th jape.Context call of *)
(* its handler, <<"node", i, b, n>> node n of block b of its control-flow  *)
(* graph, <<"call", j>> the j-th client call, <<"file">> the client file.  *)
(***************************************************************************)
Diag(msg, pos, subj, got, want) ==
    [msg |-> msg, pos |-> pos, subj |-> subj, got |-> got, want |-> want]

\* an absent subject, and an absent got or want type
None == <<>>
NoT == [d |-> 0, b |-> ""]

(***************************************************************************)
(* serverRoute                                                             *)
(***************************************************************************)
serverParam(name, typ) == [name |-> name, typ |-> typ]

serverRouteString(r) == <<r.method, " ">> \o r.path

normalizeServerSegment(seg) ==
    IF HasPrefix(seg, ":") \/ HasPrefix(seg, "*") THEN Wildcard ELSE seg

serverNormalizedRoute(r) ==
    LET split == Split(r.path, "/")
    IN <<r.method, " ">> \o
       Join([i \in 1..Len(split) |-> normalizeServerSegment(split[i])], "/")

(***************************************************************************)
(* Handlers of the analyzed source.  A handler is [found, calls, blocks]:  *)
(* found says whether the map value resolves to a function body, calls is  *)
(* the list of its jape.Context method calls in the order ast.Inspect      *)
(* meets them, blocks its control-flow graph (golang.org/x/tools/go/cfg).  *)
(* A call is [m, t, t2, name, parent]: the selector name, the types and    *)
(* the constant name of its arguments, and the index of the call whose     *)
(* arguments enclose it (0 when there is none).                            *)
(***************************************************************************)
Call(m, t, t2, name, parent) ==
    [t |-> t, name |-> name, m |-> m, t2 |-> t2, parent |-> parent]

\* pass.Report followed by "return false": the reported call's own
\* arguments are not inspected, the walk goes on with the next statement
Stop(st, k, d) ==
    [st EXCEPT !.dead = @ \cup {k}, !.diags = Append(@, d)]

\* the index the loop over r.pathParams leaves in sp (0 when sp is nil)
findParam(pathParams, name) ==
    LET hits == {i \in 1..Len(pathParams) : pathParams[i].name = name}
    IN IF hits = {} THEN 0 ELSE CHOOSE i \in hits : \A j \in hits : j <= i

visitCustom(st, c, k, pos) ==
    LET r == [st.r EXCEPT !.request = c.t, !.response = c.t2]
        st1 == [st EXCEPT !.r = r]
        a0 == pos \o <<k, 1>>
        a1 == pos \o <<k, 2>>
        noRead == Diag("routes should not read a request object", a0, <<r.method>>, NoT, NoT)
        doRead == Diag("routes should read a request object", a0, <<r.method>>, NoT, NoT)
        doWrite == Diag("routes should write a response object", a0, <<r.method>>, NoT, NoT)
        noWrite == Diag("routes should not write a response object", a1, <<r.method>>, NoT, NoT)
    IN IF r.request # UntypedNil /\ ~isPtr(r.request)
       THEN Stop(st1, k, Diag("Request type must be a pointer", a0, None, NoT, NoT))
       ELSE CASE r.method = "GET" ->
                   IF r.request # UntypedNil THEN Stop(st1, k, noRead)
                   ELSE IF r.response = UntypedNil THEN Stop(st1, k, doWrite)
                   ELSE st1
              [] r.method = "PUT" ->
                   IF r.request = UntypedNil THEN Stop(st1, k, doRead)
                   ELSE IF r.response # UntypedNil THEN Stop(st1, k, noWrite)
                   ELSE st1
              [] r.method = "DELETE" ->
                   IF r.request # UntypedNil THEN Stop(st1, k, noRead)
                   ELSE IF r.response # NilType THEN Stop(st1, k, noWrite)
                   ELSE st1
              [] OTHER -> st1

visitDecode(st, c, k, pos) ==
    LET r == st.r
    IN IF r.method = "GET" \/ r.method = "DELETE"
       THEN Stop(st, k, Diag("routes should not read a request object",
                             pos \o <<k, 0>>, <<r.method>>, NoT, NoT))
       ELSE IF ~isPtr(c.t)
       THEN Stop(st, k, Diag("Decode called on non-pointer value",
                             pos \o <<k, 1>>, None, NoT, NoT))
       ELSE IF r.request # NilType /\ ~Identical(c.t, r.request)
       THEN Stop(st, k, Diag("Decode called on, but was previously called on",
                             pos \o <<k, 1>>, None, c.t, r.request))
       ELSE [st EXCEPT !.r.request = c.t]

\* Encode without the comparison with the type recorded before: the last
\* type is the one recorded
visitEncodeLast(st, c, k, pos) ==
    LET r == st.r
    IN IF r.method = "PUT" \/ r.method = "DELETE"
       THEN Stop(st, k, Diag("routes should not write a response object",
                             pos \o <<k, 0>>, <<r.method>>, NoT, NoT))
       ELSE [st EXCEPT !.r.response = c.t]

visitEncode(st, c, k, pos) ==
    LET r == st.r
    IN IF r.method = "PUT" \/ r.method = "DELETE"
       THEN Stop(st, k, Diag("routes should not write a response object",
                             pos \o <<k, 0>>, <<r.method>>, NoT, NoT))
       ELSE IF r.response # NilType /\ ~Identical(c.t, r.response)
       THEN Stop(st, k, Diag("Encode called on, but was previously called on",
                             pos \o <<k, 1>>, None, c.t, r.response))
       ELSE [st EXCEPT !.r.response = c.t]

visitDecodeForm(st, c, k, pos) ==
    LET q == st.r.queryParams
    IN IF c.name \in DOMAIN q /\ ~Identical(q[c.name], c.t)
       THEN Stop(st, k, Diag("Form value decoded as, but was previously decoded as",
                             pos \o <<k, 0>>, c.name, c.t, q[c.name]))
       ELSE [st EXCEPT !.r.queryParams =
                [n \in DOMAIN q \cup {c.name} |-> IF n = c.name THEN c.t ELSE q[n]]]

visitDecodeParam(st, c, k, pos) ==
    LET sp == findParam(st.r.pathParams, c.name)
    IN IF sp = 0
       THEN Stop(st, k, Diag("DecodeParam called on param not present in route definition",
                             pos \o <<k, 1>>, c.name, NoT, NoT))
       ELSE IF st.r.pathParams[sp].typ # NilType
               /\ ~Identical(st.r.pathParams[sp].typ, c.t)
       THEN Stop(st, k, Diag("Param decoded as, but was previously decoded as",
                             pos \o <<k, 2>>, c.name, c.t, st.r.pathParams[sp].typ))
       ELSE IF ~isPtr(c.t)
       THEN Stop(st, k, Diag("DecodeParam called on non-pointer value",
                             pos \o <<k, 2>>, None, NoT, NoT))
       ELSE [st EXCEPT !.r.pathParams[sp].typ = c.t]

\* PathParam without the comparison with the type recorded before
visitPathParamLast(st, c, k, pos) ==
    LET sp == findParam(st.r.pathParams, c.name)
        typ == NewPointer(TString)
    IN IF sp = 0
       THEN Stop(st, k, Diag("PathParam called on param not present in route definition",
                             pos \o <<k, 1>>, c.name, NoT, NoT))
       ELSE [st EXCEPT !.r.pathParams[sp].typ = typ]

visitPathParam(st, c, k, pos) ==
    LET sp == findParam(st.r.pathParams, c.name)
        typ == NewPointer(TString)
    IN IF sp = 0
       THEN Stop(st, k, Diag("PathParam called on param not present in route definition",
                             pos \o <<k, 1>>, c.name, NoT, NoT))
       ELSE IF st.r.pathParams[sp].typ # NilType
               /\ ~Identical(st.r.pathParams[sp].typ, typ)
       THEN Stop(st, k, Diag("Param decoded as, but was previously decoded as",
                             pos \o <<k, 0>>, c.name, typ, st.r.pathParams[sp].typ))
       ELSE [st EXCEPT !.r.pathParams[sp].typ = typ]

\* the callback handed to ast.Inspect, applied to the k-th call
visitCall(st, c, k, pos) ==
    IF c.parent \in st.dead THEN [st EXCEPT !.dead = @ \cup {k}]
    ELSE CASE c.m = "Custom" -> visitCustom(st, c, k, pos)
           [] c.m = "Decode" -> visitDecode(st, c, k, pos)
           [] c.m = "Encode" -> visitEncode(st, c, k, pos)
           [] c.m = "DecodeForm" -> visitDecodeForm(st, c, k, pos)
           [] c.m = "DecodeParam" -> visitDecodeParam(st, c, k, pos)
           [] c.m = "PathParam" -> visitPathParam(st, c, k, pos)
           [] OTHER -> st

RECURSIVE inspectCalls(_, _, _, _)
inspectCalls(calls, k, st, pos) ==
    IF k > Len(calls) THEN st
    ELSE inspectCalls(calls, k + 1, visitCall(st, calls[k], k, pos), pos)

\* the path parameters named by the template, types unset
parsePathParams(path) ==
    LET split == Split(path, "/")
        idx == {i \in 1..Len(split) :
                  HasPrefix(split[i], ":") \/ HasPrefix(split[i], "*")}
        RECURSIVE collect(_)
        collect(i) ==
            IF i > Len(split) THEN <<>>
            ELSE IF i \in idx
                 THEN <<serverParam(Tail(split[i]), NilType)>> \o collect(i + 1)
                 ELSE collect(i + 1)
    IN collect(1)

\* kv is [key, handler]; key is strings.Fields of the evaluated map key,
\* a method name followed by a path when the key is well formed.
\* The result is [r, ok, diags].
parseServerRoute(kv, pos, sprefix) ==
    LET methodPath == kv.key
        bad(d) == [r |-> None, diags |-> d, ok |-> FALSE]
    IN IF Len(methodPath) # 2
       THEN bad(<<Diag("Server defines invalid route", pos, methodPath, NoT, NoT)>>)
       ELSE LET path == TrimPrefix(methodPath[2], sprefix)
                r0 == [method |-> methodPath[1],
                       path |-> path,
                       pathParams |-> parsePathParams(path),
                       request |-> NilType,
                       response |-> NilType,
                       queryParams |-> <<>>,
                       seen |-> FALSE]
            IN IF ~kv.handler.found
               THEN bad(<<Diag("Could not locate handler definition", pos, None, NoT, NoT)>>)
               ELSE LET st == inspectCalls(kv.handler.calls, 1,
                                           [r |-> r0, dead |-> {}, diags |-> <<>>], pos)
                        r1 == [st.r EXCEPT
                                 !.request = IF @ = NilType THEN UntypedNil ELSE @,
                                 !.response = IF @ = NilType THEN UntypedNil ELSE @]
                    IN IF r1.method = "GET" /\ r1.response = UntypedNil
                       THEN bad(Append(st.diags,
                                Diag("routes should write a response object",
                                     pos \o <<0>>, <<r1.method>>, NoT, NoT)))
                       ELSE IF r1.method = "PUT" /\ r1.request = UntypedNil
                       THEN bad(Append(st.diags,
                                Diag("routes should read a request object",
                                     pos \o <<0>>, <<r1.method>>, NoT, NoT)))
                       ELSE [r |-> r1, diags |-> st.diags, ok |-> TRUE]

(***************************************************************************)
(* clientRoute.  A client call of the analyzed source is [fun, m, path, d, *)
(* r]: the selector name, the method string handed to Custom, the path     *)
(* expression, and the types of the request and response arguments.        *)
(***************************************************************************)
ClientCall(fun, m, path, d, r) ==
    [d |-> d, r |-> r, path |-> path, m |-> m, fun |-> fun]

clientRouteString(r) == <<r.method, " ">> \o r.path

normalizeClientSegment(seg) ==
    IF HasPrefix(seg, "%") /\ Len(seg) > 1 THEN Wildcard ELSE seg

clientNormalizedRoute(r) ==
    LET q == Split(r.path, "?")
        path == IF Len(q) > 1 THEN q[1] ELSE r.path
        split == Split(path, "/")
    IN <<r.method, " ">> \o
       Join([i \in 1..Len(split) |-> normalizeClientSegment(split[i])], "/")

\* the names of the form values the format string fills in, in order
formNames(path) ==
    LET i == Index(path, "?")
        parts == IF i = 0 THEN <<>> ELSE Split(SubSeq(path, i + 1, Len(path)), "&")
        RECURSIVE collect(_)
        collect(n) ==
            IF n > Len(parts) THEN <<>>
            ELSE LET e == Index2(parts[n], "=", "%")
                 IN IF e = 0 THEN collect(n + 1)
                    ELSE <<SubSeq(parts[n], 1, e - 1)>> \o collect(n + 1)
    IN collect(1)

\* r.queryParams after the loop over call.Args[1:]: a later argument
\* of the same name overwrites an earlier one.  The value is the index
\* of the argument in args.
RECURSIVE bindQuery(_, _, _, _)
bindQuery(names, nPath, nArgs, i) ==
    IF i > nArgs THEN <<>>
    ELSE LET rest == bindQuery(names, nPath, nArgs, i + 1)
             name == names[i - nPath]
         IN [n \in DOMAIN rest \cup {name} |->
                IF n \in DOMAIN rest THEN rest[n] ELSE i]

\* sprintfParse: the result is [r, diags]
sprintfParse(r, expr, pos) ==
    LET r0 == [r EXCEPT !.queryParams = <<>>]
    IN IF expr.t # "sprintf" THEN [r |-> r0, diags |-> <<>>]
       ELSE LET nPath == Count2(r.path, "/", "%")
                nForm == Count2(r.path, "=", "%")
                nArgs == Len(expr.args)
            IN IF nArgs # nPath + nForm
               THEN [r |-> r0,
                     diags |-> <<Diag("route contains parameters, but arguments are supplied",
                                      pos, <<nPath, nForm, nArgs>>, NoT, NoT)>>]
               ELSE [r |-> [r0 EXCEPT
                              !.pathParams = SubSeq(expr.args, 1, nPath),
                              !.args = expr.args,
                              !.queryParams =
                                  bindQuery(formNames(r.path), nPath, nArgs, nPath + 1)],
                     diags |-> <<>>]

\* parseClientRoute never returns nil: the result is [r, diags]
parseClientRoute(call, pos, cprefix) ==
    LET path == TrimPrefix(evalConstString(call.path), cprefix)
        blank == [args |-> <<>>, method |-> call.fun, path |-> path,
                  pathParams |-> <<>>, request |-> NoExpr, response |-> NoExpr,
                  queryParams |-> <<>>]
    IN IF call.fun = "Custom"
       THEN sprintfParse([blank EXCEPT !.method = call.m,
                                       !.request = call.d,
                                       !.response = call.r], call.path, pos)
       ELSE sprintfParse(
                CASE call.fun = "GET" -> [blank EXCEPT !.response = call.r]
                  [] call.fun = "POST" -> [blank EXCEPT !.request = call.d,
                                                        !.response = call.r]
                  [] call.fun = "PUT" -> [blank EXCEPT !.request = call.d]
                  [] OTHER -> blank,
                call.path, pos)

(***************************************************************************)
(* The comparison of a client route with the server route it matches.      *)
(***************************************************************************)
ptrTo(t) == IF t = UntypedNil THEN t ELSE NewPointer(t)

\* elem that leaves a pointer as it is
elemKeep(t) == t

elem(t) == IF isPtr(t) THEN [d |-> t.d - 1, b |-> t.b] ELSE t

compareRequest(sr, cr, pos) ==
    IF cr.request # NoExpr /\ ~Identical(cr.request, elem(sr.request))
    THEN <<Diag("Client has wrong request type", pos \o <<"request">>,
                serverRouteString(sr), cr.request, elem(sr.request))>>
    ELSE <<>>

compareResponse(sr, cr, pos) ==
    IF cr.response # NoExpr /\ ~Identical(cr.response, ptrTo(sr.response))
    THEN <<Diag("Client has wrong response type", pos \o <<"response">>,
                serverRouteString(sr), cr.response, ptrTo(sr.response))>>
    ELSE <<>>

RECURSIVE comparePathParams(_, _, _, _)
comparePathParams(sr, cr, pos, i) ==
    IF i > Len(sr.pathParams) THEN <<>>
    ELSE (IF i > Len(cr.pathParams)
          THEN <<Diag("Client has too few path parameters", pos,
                      serverRouteString(sr), NoT, NoT)>>
          ELSE IF ~Identical(cr.pathParams[i], elem(sr.pathParams[i].typ))
          THEN <<Diag("Client has wrong type for path parameter", pos \o <<"arg", i>>,
                      sr.pathParams[i].name, cr.pathParams[i],
                      elem(sr.pathParams[i].typ))>>
          ELSE <<>>)
         \o comparePathParams(sr, cr, pos, i + 1)

\* the loop over cr.queryParams left after its first iteration
compareQueryParamsOnce(sr, cr, pos, order) ==
    IF Len(order) = 0 THEN <<>>
    ELSE LET name == Head(order)
             arg == cr.queryParams[name]
             got == cr.args[arg]
         IN IF name \notin DOMAIN sr.queryParams
            THEN <<Diag("Client references undefined query parameter",
                        pos \o <<"arg", arg>>, name, NoT, NoT)>>
            ELSE IF ~Identical(got, elem(sr.queryParams[name]))
            THEN <<Diag("Client has wrong type for query parameter",
                        pos \o <<"arg", arg>>, name, got, elem(sr.queryParams[name]))>>
            ELSE <<>>

\* order is the order in which range happens to visit cr.queryParams
RECURSIVE compareQueryParams(_, _, _, _)
compareQueryParams(sr, cr, pos, order) ==
    IF Len(order) = 0 THEN <<>>
    ELSE LET name == Head(order)
             arg == cr.queryParams[name]
             got == cr.args[arg]
         IN (IF name \notin DOMAIN sr.queryParams
             THEN <<Diag("Client references undefined query parameter",
                         pos \o <<"arg", arg>>, name, NoT, NoT)>>
             ELSE IF ~Identical(got, elem(sr.queryParams[name]))
             THEN <<Diag("Client has wrong type for query parameter",
                         pos \o <<"arg", arg>>, name, got, elem(sr.queryParams[name]))>>
             ELSE <<>>)
            \o compareQueryParams(sr, cr, pos, Tail(order))

\* the sequences that enumerate the set S once each
Orders(S) ==
    {o \in [1..Cardinality(S) -> S] : \A x \in S : \E i \in DOMAIN o : o[i] = x}

(***************************************************************************)
(* checkSingleResponse.  A block of the control-flow graph is [nodes,      *)
(* succs]; a node is [calls, cond]: the indices of the jape.Context calls  *)
(* the node contains and, for the condition of a branch, its expression.   *)
(***************************************************************************)
Block(nodes, succs) == [nodes |-> nodes, succs |-> succs]
Node(calls, cond) == [calls |-> calls, cond |-> cond]

\* expressions of a branch condition
Bin(op, x, y) == [t |-> "bin", X |-> x, Y |-> y, op |-> op]
Jc(k) == [t |-> "jc", k |-> k]
Nil == [t |-> "nil"]
Var == [t |-> "var"]
NoCond == [t |-> "none"]
Stmt(calls) == Node(calls, NoCond)

\* a nil prevWrite; a non-nil one is <<b, n>>, node n of block b
NoWrite == <<>>

WriteNames == {"Error", "Check", "Decode", "DecodeParam", "DecodeForm", "Encode"}

\* isWrite without the case m == "Check"
isWriteNoCheck(c) == c.m \in (WriteNames \ {"Check"})

isWrite(c) == c.m \in WriteNames

containsWrite(h, n) == \E x \in 1..Len(n.calls) : isWrite(h.calls[n.calls[x]])

\* the loop over b.Nodes: [prev, dup], dup being the node reported (0: none)
RECURSIVE scanNodes(_, _, _, _)
scanNodes(h, b, i, prev) ==
    IF i > Len(h.blocks[b].nodes) THEN [prev |-> prev, dup |-> 0]
    ELSE IF containsWrite(h, h.blocks[b].nodes[i])
         THEN IF prev # NoWrite THEN [prev |-> prev, dup |-> i]
              ELSE scanNodes(h, b, i + 1, <<b, i>>)
         ELSE scanNodes(h, b, i + 1, prev)

\* checkCond with its captured variables cmp, op and numConds in st
RECURSIVE checkCond(_, _, _)
checkCond(h, cond, st) ==
    IF cond.t # "bin" THEN [st EXCEPT !.ok = FALSE]
    ELSE IF cond.op \in {"==", "!="}
    THEN IF st.cmp # "" /\ cond.op # st.cmp THEN [st EXCEPT !.ok = FALSE]
         ELSE [st EXCEPT
                 !.cmp = cond.op,
                 !.numConds = @ + 1,
                 !.ok = /\ cond.X.t = "jc"
                        /\ isWrite(h.calls[cond.X.k])
                        /\ cond.Y.t = "nil"]
    ELSE IF cond.op \in {"&&", "||"}
    THEN IF st.op # "" /\ cond.op # st.op THEN [st EXCEPT !.ok = FALSE]
         ELSE LET sx == checkCond(h, cond.X, [st EXCEPT !.op = cond.op])
              IN IF ~sx.ok THEN sx ELSE checkCond(h, cond.Y, sx)
    ELSE [st EXCEPT !.ok = FALSE]

\* the recursive calls of a branch block, prevWrite handed to both
branchCallsBoth(h, b, prev, cmp) ==
    LET succs == h.blocks[b].succs
    IN <<<<succs[1], prev>>, <<succs[2], prev>>>>

\* the recursive calls a branch block makes, in order
branchCalls(h, b, prev, cmp) ==
    LET succs == h.blocks[b].succs
    IN IF cmp = "!=" THEN <<<<succs[1], prev>>, <<succs[2], NoWrite>>>>
       ELSE <<<<succs[1], NoWrite>>, <<succs[2], prev>>>>

\* one invocation of checkBlock on an unvisited block: [diags, calls],
\* calls being the invocations <<block, prevWrite>> it makes, in order
checkBlock(h, b, prevWrite, pos) ==
    LET blk == h.blocks[b]
        scan == scanNodes(h, b, 1, prevWrite)
        prev == scan.prev
        last == blk.nodes[Len(blk.nodes)]
        condPos == pos \o <<b, Len(blk.nodes)>>
        st == checkCond(h, last.cond, [ok |-> TRUE, op |-> "", cmp |-> "", numConds |-> 0])
    IN IF scan.dup # 0
       THEN [diags |-> <<Diag("Handler writes multiple responses",
                              pos \o <<b, scan.dup>>, prev, NoT, NoT)>>,
             calls |-> <<>>]
       ELSE IF Len(blk.succs) = 2 /\ Len(blk.nodes) # 0
       THEN IF ~containsWrite(h, last)
            THEN [diags |-> <<>>,
                  calls |-> <<<<blk.succs[1], prev>>, <<blk.succs[2], prev>>>>]
            ELSE IF ~st.ok
            THEN [diags |-> <<Diag("Weird condition expression", condPos, None, NoT, NoT)>>,
                  calls |-> <<>>]
            ELSE IF st.numConds > 1
                    /\ \/ (st.cmp = "==" /\ st.op # "&&")
                       \/ (st.cmp = "!=" /\ st.op # "||")
            THEN [diags |-> <<Diag("Condition may write multiple responses", condPos,
                                   None, NoT, NoT)>>,
                  calls |-> <<>>]
            ELSE [diags |-> <<>>, calls |-> branchCalls(h, b, prev, st.cmp)]
       ELSE [diags |-> <<>>,
             calls |-> [i \in 1..Len(blk.succs) |-> <<blk.succs[i], prev>>]]

(***************************************************************************)
(* The analyzed sources the model runs the analyzer on.                    *)
(***************************************************************************)
Handler(calls, blocks) == [calls |-> calls, found |-> TRUE, blocks |-> blocks]
\* a map value that is neither a function literal nor resolves to one
NoHandler == [calls |-> <<>>, found |-> FALSE, blocks |-> <<>>]

Elt(method, path, handler) == [key |-> <<method, path>>, handler |-> handler]

cEncode(t, parent) == Call("Encode", t, NoT, None, parent)
cDecode(t) == Call("Decode", t, NoT, None, 0)
cDecodeParam(name, t) == Call("DecodeParam", t, NoT, name, 0)
cDecodeForm(name, t) == Call("DecodeForm", t, NoT, name, 0)
cPathParam(name, parent) == Call("PathParam", NoT, NoT, name, parent)
cCustom(t, t2) == Call("Custom", t, t2, None, 0)
cError == Call("Error", NoT, NoT, None, 0)
cCheck == Call("Check", NoT, NoT, None, 0)

\* the return statement cfg.New adds where control falls off the body,
\* and an explicit return statement
Ret == Stmt(<<>>)

\* func(jc jape.Context) {}
hEmpty == Handler(<<>>, <<Block(<<Ret>>, <<>>)>>)

\* func(jc jape.Context) { jc.Encode(v) }
hEncode(t) == Handler(<<cEncode(t, 0)>>, <<Block(<<Stmt(<<1>>), Ret>>, <<>>)>>)

\* func(jc jape.Context) { var v T; jc.Decode(&v) }
hDecode(t) == Handler(<<cDecode(t)>>, <<Block(<<Stmt(<<>>), Stmt(<<1>>), Ret>>, <<>>)>>)

\* the handler of README.md:
\*   var greeting string
\*   if jc.Decode(&greeting) == nil {
\*       jc.Encode(greeting + ", " + jc.PathParam(name))
\*   }
\* blocks: entry, if.then, if.done
hHello(name, tq, tr) ==
    Handler(<<cDecode(NewPointer(tq)), cEncode(tr, 0), cPathParam(name, 2)>>,
            <<Block(<<Stmt(<<>>), Node(<<1>>, Bin("==", Jc(1), Nil))>>, <<2, 3>>),
              Block(<<Stmt(<<2, 3>>)>>, <<3>>),
              Block(<<Ret>>, <<>>)>>)

\*   if err := jc.Check(msg, e); err != nil { return }
\*   jc.Encode(v)
\* blocks: entry, if.then, if.done, unreachable.return
hCheckAssign(t) ==
    Handler(<<cCheck, cEncode(t, 0)>>,
            <<Block(<<Stmt(<<1>>), Node(<<>>, Bin("!=", Var, Nil))>>, <<2, 3>>),
              Block(<<Ret>>, <<>>),
              Block(<<Stmt(<<2>>), Ret>>, <<>>),
              Block(<<>>, <<3>>)>>)

\*   if jc.Check(msg, e) != nil { return }
\*   jc.Encode(v)
hCheckDirect(t) ==
    Handler(<<cCheck, cEncode(t, 0)>>,
            <<Block(<<Node(<<1>>, Bin("!=", Jc(1), Nil))>>, <<2, 3>>),
              Block(<<Ret>>, <<>>),
              Block(<<Stmt(<<2>>), Ret>>, <<>>),
              Block(<<>>, <<3>>)>>)

\* two statements, each one call, in the body's only block
hTwo(c1, c2) == Handler(<<c1, c2>>, <<Block(<<Stmt(<<1>>), Stmt(<<2>>), Ret>>, <<>>)>>)

\*   if ok { jc.Encode(v) }
\*   jc.Encode(v)
hThenWrite(t) ==
    Handler(<<cEncode(t, 0), cEncode(t, 0)>>,
            <<Block(<<Node(<<>>, Var)>>, <<2, 3>>),
              Block(<<Stmt(<<1>>)>>, <<3>>),
              Block(<<Stmt(<<2>>), Ret>>, <<>>)>>)

\*   if ok { } else { jc.Encode(v) }
\*   jc.Encode(v)
\* blocks: entry, if.then, if.done, if.else
hElseWrite(t) ==
    Handler(<<cEncode(t, 0), cEncode(t, 0)>>,
            <<Block(<<Node(<<>>, Var)>>, <<2, 4>>),
              Block(<<>>, <<3>>),
              Block(<<Stmt(<<2>>), Ret>>, <<>>),
              Block(<<Stmt(<<1>>)>>, <<3>>)>>)

\*   for more { jc.Encode(v) }
\* blocks: entry, for.body, for.done, for.loop
hLoop(t) ==
    Handler(<<cEncode(t, 0)>>,
            <<Block(<<>>, <<4>>),
              Block(<<Stmt(<<1>>)>>, <<4>>),
              Block(<<Ret>>, <<>>),
              Block(<<Node(<<>>, Var)>>, <<2, 3>>)>>)

\* path templates and client paths, written out character by character
pHello == <<"/", "h", "/", ":", "n">>
pX == <<"/", "x", "/", ":", "i">>
pXstar == <<"/", "x", "/", "*", "i">>
pR == <<"/", "r">>
pVR == <<"/", "v", "/", "r">>
pEsc == <<"/", "%", "4", "/", ":", "i">>
sHello == <<"/", "h", "/">>
sX == <<"/", "x", "/">>
sXfmt == <<"/", "x", "/", "%", "s">>
sEsc == <<"/", "%", "4", "/">>
sNope == <<"/", "n">>
sNopeFmt == <<"/", "n", "/", "%", "s">>
nN == <<"n">>
nI == <<"i">>
nK == <<"k">>

\* the values of the flags -sprefix and -cprefix
Prefixes == {<<>>, <<"/", "v">>}

\* the elements the server's route map literal is made of
RouteElts ==
    <<Elt("POST", pHello, hHello(nN, TString, TString)),
      Elt("GET", pX, hEncode(TString)),
      Elt("GET", pEsc, hEncode(TString)),
      Elt("GET", pXstar, hEncode(TString)),
      Elt("GET", pX, hEmpty),
      Elt("PUT", pR, hDecode(NewPointer(TString))),
      Elt("PUT", pVR, hDecode(NewPointer(TInt))),
      [key |-> <<"GET">>, handler |-> hEmpty]>>

\* the jape.Client calls the client file is made of
ClientCalls ==
    <<ClientCall("POST", "", Add(Lit(sHello), Ident), TString, NewPointer(TInt)),
      ClientCall("GET", "", Add(Lit(sX), Ident), NoExpr, NewPointer(TInt)),
      ClientCall("GET", "", Add(Lit(sX), Ident), NoExpr, NewPointer(TString)),
      ClientCall("GET", "", Sprintf(Lit(sXfmt), <<TString>>), NoExpr, NewPointer(TString)),
      ClientCall("PUT", "", Lit(pR), TString, NoExpr),
      ClientCall("PUT", "", Lit(pR), TInt, NoExpr),
      ClientCall("GET", "", Add(Lit(sEsc), Ident), NoExpr, NewPointer(TString)),
      ClientCall("GET", "", Lit(sNope), NoExpr, NewPointer(TString)),
      ClientCall("GET", "", Sprintf(Lit(sNopeFmt), <<>>), NoExpr, NewPointer(TString)),
      ClientCall("DELETE", "", Lit(pVR), NoExpr, NoExpr),
      ClientCall("Custom", "PUT", Lit(pR), NewPointer(TString), UntypedNil)>>

(***************************************************************************)
(* run, step by step.                                                      *)
(***************************************************************************)
VARIABLES
    pc,         \* where run is: "start", "server", "csr", "client", "missing", "done"
    hasServer,  \* some file of the package defines a route map (definesServer)
    hasClient,  \* some file of the package calls a jape.Client (definesClient)
    sprefix,    \* the flag -sprefix
    cprefix,    \* the flag -cprefix
    elts,       \* the elements of the route map visited so far
    routes,     \* run's map routes, from normalized route to serverRoute
    visited,    \* checkSingleResponse's map visited
    stack,      \* the pending invocations <<block, prevWrite>> of checkBlock
    calls,      \* the client calls visited so far
    pending,    \* the keys the final range over routes has still to visit
    diags,      \* what pass.Report has been handed, in order
    ret         \* the error run returns: "" while running, else "nil" or the message

\* the variables of the analyzer
avars == <<pc, hasServer, hasClient, sprefix, cprefix, elts, routes, visited,
           stack, calls, pending, diags, ret>>

(***************************************************************************)
(* The runtime (server.go, client.go): one HTTP exchange between a client  *)
(* and a handler served by Mux.                                            *)
(***************************************************************************)
VARIABLES
    rpc,        \* where the exchange is: "idle", "sent", "served", "returned"
    hreq,       \* the http.Request the server receives
    rw,         \* the http.ResponseWriter of the exchange
    hret,       \* what the Context methods returned to the handler
    cret        \* what Client.req returned to its caller

\* the variables of the runtime
rvars == <<rpc, hreq, rw, hret, cret>>

vars == <<avars, rvars>>

\* a ResponseWriter nothing has been written to: status 0 stands for
\* "WriteHeader not called yet"
NewWriter == [status |-> 0, ctype |-> "", body |-> <<>>]

\* no exchange is going on (the analyzer does not run the program)
RuntimeIdle ==
    /\ rpc = "idle"
    /\ hreq = <<>>
    /\ rw = NewWriter
    /\ hret = <<>>
    /\ cret = <<>>

Init ==
    /\ RuntimeIdle
    /\ pc = "start"
    /\ hasServer \in BOOLEAN
    /\ hasClient \in BOOLEAN
    /\ sprefix \in Prefixes
    /\ cprefix \in Prefixes
    /\ elts = <<>>
    /\ routes = <<>>
    /\ visited = {}
    /\ stack = <<>>
    /\ calls = <<>>
    /\ pending = {}
    /\ diags = <<>>
    /\ ret = ""

\* findFiles with the test of clientFile made before the test of serverFile
findFilesClientFirst(server, client) ==
    IF ~client THEN "no Client definition found"
    ELSE IF ~server THEN "nil"
    ELSE ""

\* what run returns after its search for the client and the server file:
\* "nil" for (nil, nil), the error's message, or "" when run goes on
findFiles(server, client) ==
    IF ~server THEN "nil"
    ELSE IF ~client THEN "no Client definition found"
    ELSE ""

\* the search for the client and the server file
Start ==
    /\ UNCHANGED rvars
    /\ pc = "start"
    /\ ret' = findFiles(hasServer, hasClient)
    /\ pc' = IF ret' = "" THEN "server" ELSE "done"
    /\ UNCHANGED <<hasServer, hasClient, sprefix, cprefix, elts, routes, visited,
                   stack, calls, pending, diags>>

\* an insertion that leaves a key of the map as it is
putRouteOnce(m, key, r) ==
    [k \in DOMAIN m \cup {key} |-> IF k \in DOMAIN m THEN m[k] ELSE r]

\* routes[key] = r
putRoute(m, key, r) ==
    [k \in DOMAIN m \cup {key} |-> IF k = key THEN r ELSE m[k]]

\* the invocations of checkBlock the loop over g.Blocks makes
allBlocks(h) == [b \in 1..Len(h.blocks) |-> <<b, NoWrite>>]

\* the body of the loop over the route map for the element kv:
\* parseServerRoute, the insertion into routes and the start of
\* checkSingleResponse
ParseElt(kv, max) ==
    /\ UNCHANGED rvars
    /\ pc = "server"
    /\ Len(elts) < max
    /\ LET i == Len(elts) + 1
           res == parseServerRoute(kv, <<"elt", i>>, sprefix)
       IN /\ elts' = Append(elts, kv)
          /\ diags' = diags \o res.diags
          /\ IF res.ok
             THEN /\ routes' = putRoute(routes, serverNormalizedRoute(res.r), res.r)
                  /\ visited' = {}
                  /\ stack' = allBlocks(kv.handler)
                  /\ pc' = "csr"
             ELSE UNCHANGED <<routes, visited, stack, pc>>
    /\ UNCHANGED <<hasServer, hasClient, sprefix, cprefix, calls, pending, ret>>

\* one element of the route map, any of E
ParseRoute(E, max) == \E e \in 1..Len(E) : ParseElt(E[e], max)

\* one invocation of checkBlock without the test of visited[b]
CheckBlockRevisit ==
    /\ UNCHANGED rvars
    /\ pc = "csr"
    /\ stack # <<>>
    /\ LET i == Len(elts)
           b == stack[1][1]
           prevWrite == stack[1][2]
           res == checkBlock(elts[i].handler, b, prevWrite, <<"node", i>>)
       IN /\ visited' = visited \cup {b}
          /\ diags' = diags \o res.diags
          /\ stack' = res.calls \o Tail(stack)
    /\ pc' = IF stack' = <<>> THEN "server" ELSE "csr"
    /\ UNCHANGED <<hasServer, hasClient, sprefix, cprefix, elts, routes, calls,
                   pending, ret>>

\* one invocation of checkBlock for the handler of the last element
CheckBlock ==
    /\ UNCHANGED rvars
    /\ pc = "csr"
    /\ stack # <<>>
    /\ LET i == Len(elts)
           b == stack[1][1]
           prevWrite == stack[1][2]
           res == checkBlock(elts[i].handler, b, prevWrite, <<"node", i>>)
       IN IF b \in visited
          THEN /\ stack' = Tail(stack)
               /\ UNCHANGED <<visited, diags>>
          ELSE /\ visited' = visited \cup {b}
               /\ diags' = diags \o res.diags
               /\ stack' = res.calls \o Tail(stack)
    /\ pc' = IF stack' = <<>> THEN "server" ELSE "csr"
    /\ UNCHANGED <<hasServer, hasClient, sprefix, cprefix, elts, routes, calls,
                   pending, ret>>

\* the route map has no further element
EndServer ==
    /\ UNCHANGED rvars
    /\ pc = "server"
    /\ pc' = "client"
    /\ UNCHANGED <<hasServer, hasClient, sprefix, cprefix, elts, routes, visited,
                   stack, calls, pending, diags, ret>>

\* the diagnostics of a client route that found its server route unseen
compare(sr, cr, pos, order) ==
    compareRequest(sr, cr, pos) \o compareResponse(sr, cr, pos)
    \o comparePathParams(sr, cr, pos, 1) \o compareQueryParams(sr, cr, pos, order)

\* the assignment sr.seen = true left out
markSeenForgotten(sr) == sr

markSeen(sr) == [sr EXCEPT !.seen = TRUE]

\* one client call: parseClientRoute, the lookup and the comparison
ClientStep(C, max) ==
    /\ UNCHANGED rvars
    /\ pc = "client"
    /\ Len(calls) < max
    /\ \E c \in 1..Len(C) :
         LET call == C[c]
             pos == <<"call", Len(calls) + 1>>
             parsed == parseClientRoute(call, pos, cprefix)
             cr == parsed.r
             key == clientNormalizedRoute(cr)
         IN /\ calls' = Append(calls, call)
            /\ IF key \notin DOMAIN routes
               THEN /\ diags' = diags \o parsed.diags \o
                          <<Diag("Client references route not defined by server",
                                 pos, clientRouteString(cr), NoT, NoT)>>
                    /\ routes' = routes
               ELSE IF routes[key].seen
               THEN /\ diags' = diags \o parsed.diags \o
                          <<Diag("Client references multiple times",
                                 pos, clientRouteString(cr), NoT, NoT)>>
                    /\ routes' = routes
               ELSE \E order \in Orders(DOMAIN cr.queryParams) :
                    /\ diags' = diags \o parsed.diags \o
                                    compare(routes[key], cr, pos, order)
                    /\ routes' = [routes EXCEPT ![key] = markSeen(@)]
    /\ UNCHANGED <<pc, hasServer, hasClient, sprefix, cprefix, elts, visited,
                   stack, pending, ret>>

\* the client file has no further call
EndClient ==
    /\ UNCHANGED rvars
    /\ pc = "client"
    /\ pc' = "missing"
    /\ pending' = DOMAIN routes
    /\ UNCHANGED <<hasServer, hasClient, sprefix, cprefix, elts, routes, visited,
                   stack, calls, diags, ret>>

\* the body of the final range over routes, without the test of sr.seen
reportMissingAlways(sr) ==
    <<Diag("Client missing method", <<"file">>, serverRouteString(sr), NoT, NoT)>>

\* the body of the final range over routes
reportMissing(sr) ==
    IF ~sr.seen
    THEN <<Diag("Client missing method", <<"file">>, serverRouteString(sr), NoT, NoT)>>
    ELSE <<>>

\* one iteration of the final range over routes, in any order
ReportMissing ==
    /\ UNCHANGED rvars
    /\ pc = "missing"
    /\ \E key \in pending :
         /\ pending' = pending \ {key}
         /\ diags' = diags \o reportMissing(routes[key])
    /\ UNCHANGED <<pc, hasServer, hasClient, sprefix, cprefix, elts, routes,
                   visited, stack, calls, ret>>

Finish ==
    /\ UNCHANGED rvars
    /\ pc = "missing"
    /\ pending = {}
    /\ pc' = "done"
    /\ ret' = "nil"
    /\ UNCHANGED <<hasServer, hasClient, sprefix, cprefix, elts, routes, visited,
                   stack, calls, pending, diags>>

Next ==
    \/ Start
    \/ ParseRoute(RouteElts, MaxRoutes)
    \/ CheckBlock
    \/ EndServer
    \/ ClientStep(ClientCalls, MaxCalls)
    \/ EndClient
    \/ ReportMissing
    \/ Finish

Spec == Init /\ [][Next]_vars

(***************************************************************************)
(* The single-response checker on its own: run has found both files and    *)
(* visits the elements of a route map whose handlers have every shape of   *)
(* the library above.                                                      *)
(***************************************************************************)
\* number of elements of the route map in SpecCSR
MaxHandlers == 1

\* one call of each response-writing method
WriteCalls ==
    <<cError, cCheck, cDecode(NewPointer(TString)), cDecodeParam(nN, NewPointer(TString)),
      cDecodeForm(nK, NewPointer(TInt)), cEncode(TString, 0)>>

\* the handlers of two sequential writes, then the handlers that branch
RECURSIVE twoWrites(_)
twoWrites(n) ==
    IF n > Len(WriteCalls) * Len(WriteCalls) THEN <<>>
    ELSE <<hTwo(WriteCalls[((n - 1) \div Len(WriteCalls)) + 1],
                WriteCalls[((n - 1) % Len(WriteCalls)) + 1])>> \o twoWrites(n + 1)

Handlers ==
    twoWrites(1) \o
    <<hCheckAssign(TString), hCheckDirect(TString), hThenWrite(TString),
      hElseWrite(TString), hLoop(TString), hHello(nN, TString, TString),
      hEncode(TInt), hEmpty>>

RECURSIVE eltsOf(_, _)
eltsOf(method, n) ==
    IF n > Len(Handlers) THEN <<>>
    ELSE <<Elt(method, pHello, Handlers[n])>> \o eltsOf(method, n + 1)

HandlerElts == eltsOf("GET", 1) \o eltsOf("POST", 1)

InitCSR ==
    /\ RuntimeIdle
    /\ pc = "server"
    /\ hasServer = TRUE
    /\ hasClient = TRUE
    /\ sprefix \in Prefixes
    /\ cprefix = <<>>
    /\ elts = <<>>
    /\ routes = <<>>
    /\ visited = {}
    /\ stack = <<>>
    /\ calls = <<>>
    /\ pending = {}
    /\ diags = <<>>
    /\ ret = ""

NextCSR ==
    \/ ParseRoute(HandlerElts, MaxHandlers)
    \/ CheckBlock

SpecCSR == InitCSR /\ [][NextCSR]_vars

(***************************************************************************)
(* Properties.                                                             *)
(***************************************************************************)
DiagIdx(P(_)) == {n \in 1..Len(diags) : P(diags[n])}

\* the diagnostics reported for the j-th client call
OfCall(j) == {n \in 1..Len(diags) : diags[n].pos[1] = "call" /\ diags[n].pos[2] = j}

\* the diagnostics checkSingleResponse reported for the i-th element
OfHandler(i) == {n \in 1..Len(diags) : diags[n].pos[1] = "node" /\ diags[n].pos[2] = i}

\* checkSingleResponse has run to its end on the i-th element
Checked(i) ==
    /\ i \in 1..Len(elts)
    /\ parseServerRoute(elts[i], <<"elt", i>>, sprefix).ok
    /\ i < Len(elts) \/ pc # "csr"

\* the normalized route of the j-th client call
KeyOfCall(j) == clientNormalizedRoute(parseClientRoute(calls[j], <<"call", j>>, cprefix).r)

\* the README scenario, names shortened to one letter
HelloElt == Elt("POST", pHello, hHello(nN, TString, TString))
HelloCall == ClientCall("POST", "", Add(Lit(sHello), Ident), TString, NewPointer(TInt))
HelloRoute == <<"POST", " ">> \o pHello

\* C1: after a run on the README scenario (route "POST /hello/:name" with the
\* README handler, client call POST("/hello/"+name, greeting, &resp) with resp
\* an int) the diagnostics are exactly one, the wrong response type of
\* POST /hello/:name.
C1_HelloSingleDiagnostic ==
    (pc = "done" /\ elts = <<HelloElt>> /\ calls = <<HelloCall>>)
        => /\ Len(diags) = 1
           /\ diags[1].msg = "Client has wrong response type"
           /\ diags[1].subj = HelloRoute

\* the handlers of the form  if err := jc.Check(...); err != nil { return }
\* followed by one write
CheckAssignHandlers == {hCheckAssign(TString), hCheckAssign(TInt)}

\* C2: checkSingleResponse reports nothing for a handler of the form
\* if err := jc.Check(...); err != nil { return } followed by one write.
C2_CheckAssignNoDiagnostic ==
    \A i \in 1..Len(elts) :
        elts[i].handler \in CheckAssignHandlers => OfHandler(i) = {}

\* the pairs <<block, write before it>> some execution path of h reaches
RECURSIVE PathStates(_, _)
PathStates(h, S) ==
    LET step == {c \in UNION {{checkBlock(h, s[1], s[2], None).calls[n] :
                                  n \in 1..Len(checkBlock(h, s[1], s[2], None).calls)} :
                               s \in S} : TRUE}
    IN IF step \subseteq S THEN S ELSE PathStates(h, S \cup step)

\* the first node of block b of h that contains a response-writing call
FirstWrite(h, b) ==
    LET w == {n \in 1..Len(h.blocks[b].nodes) :
                \E x \in 1..Len(h.blocks[b].nodes[n].calls) :
                    h.calls[h.blocks[b].nodes[n].calls[x]].m \in WriteNames}
    IN IF w = {} THEN 0 ELSE CHOOSE n \in w : \A m \in w : n <= m

\* C3: once checkSingleResponse has run on a handler, every write that some
\* path reaches after an earlier write is reported as a multiple response.
C3_SecondWriteReported ==
    \A i \in 1..Len(elts) :
        Checked(i) =>
            \A s \in PathStates(elts[i].handler, {<<1, NoWrite>>}) :
                (s[2] # NoWrite /\ FirstWrite(elts[i].handler, s[1]) # 0)
                    => \E n \in OfHandler(i) :
                          /\ diags[n].msg = "Handler writes multiple responses"
                          /\ diags[n].pos = <<"node", i, s[1],
                                               FirstWrite(elts[i].handler, s[1])>>

\* the response-writing methods the property sentences name
NamedWrites == {"Error", "Check", "Decode", "DecodeParam", "DecodeForm", "Encode"}

\* the nodes of block b of h that hold a call of a response-writing method
WriteNodes(h, b) ==
    {n \in 1..Len(h.blocks[b].nodes) :
        \E x \in 1..Len(h.blocks[b].nodes[n].calls) :
            h.calls[h.blocks[b].nodes[n].calls[x]].m \in NamedWrites}

Least(S) == CHOOSE n \in S : \A m \in S : n <= m

MissingOf(r) ==
    {n \in 1..Len(diags) : /\ diags[n].msg = "Client missing method"
                           /\ diags[n].subj = <<r.method, " ">> \o r.path}

C6_UnmatchedCallOneDiagnostic ==
    [][(pc = "client" /\ Len(calls') = Len(calls) + 1
          /\ clientNormalizedRoute(
                 parseClientRoute(calls'[Len(calls')], None, cprefix).r)
                \notin DOMAIN routes)
        => /\ routes' = routes
           /\ Len(diags') = Len(diags) + 1
           /\ diags'[Len(diags')].msg = "Client references route not defined by server"]_vars

\* the client calls before the j-th that have its normalized route
Earlier(j) == {i \in 1..(j - 1) : KeyOfCall(i) = KeyOfCall(j)}

\* the type a client's response argument must have for the server route sr
WantResponse(sr) ==
    IF sr.response.b = "untyped nil" THEN sr.response
    ELSE [d |-> sr.response.d + 1, b |-> sr.response.b]

\* C7: of the client calls that have the normalized route of one server
\* route, the first marks the route seen and has its response type compared,
\* and each later one gets exactly one "Client references ... multiple times"
\* diagnostic and no other.
C7_MultipleReferences ==
    \A j \in 1..Len(calls) :
        KeyOfCall(j) \in DOMAIN routes =>
            LET sr == routes[KeyOfCall(j)]
                multi == {n \in OfCall(j) : diags[n].msg = "Client references multiple times"}
                resp == {n \in OfCall(j) : diags[n].msg = "Client has wrong response type"}
                argR == calls[j].r
            IN /\ sr.seen
               /\ IF Earlier(j) = {}
                  THEN /\ multi = {}
                       /\ calls[j].fun \in {"GET", "POST", "Custom"}
                            => (resp # {} <=> argR # WantResponse(sr))
                  ELSE /\ Cardinality(multi) = 1
                       /\ OfCall(j) = multi

\* C7 witness: two client calls of one server route, the second one reported
C7_Witness ==
    /\ Len(calls) = 2
    /\ KeyOfCall(1) \in DOMAIN routes
    /\ KeyOfCall(2) = KeyOfCall(1)
    /\ \E n \in OfCall(2) : diags[n].msg = "Client references multiple times"
    /\ \A n \in OfCall(1) : diags[n].msg # "Client references multiple times"

\* the first client call that has the normalized route key (0: none)
FirstCallOf(key) ==
    LET js == {j \in 1..Len(calls) : KeyOfCall(j) = key}
    IN IF js = {} THEN 0 ELSE Least(js)

\* the request argument of a client call (NoExpr when its method takes none)
RequestArg(call) ==
    IF call.fun \in {"POST", "PUT", "Custom"} THEN call.d ELSE NoExpr

\* the "Client has wrong request type" diagnostics that name the route r
WrongRequestOf(r) ==
    {n \in 1..Len(diags) : /\ diags[n].msg = "Client has wrong request type"
                           /\ diags[n].subj = <<r.method, " ">> \o r.path}

\* C8: for a route whose recorded request type is a pointer *Req and whose
\* matching client call supplies a request value, there is exactly one
\* "Client has wrong request type" diagnostic when the value's type is not
\* Req, naming that type as got and Req as want, and none when it is Req.
C8_WrongRequestType ==
    \A key \in DOMAIN routes :
        LET sr == routes[key]
            j == FirstCallOf(key)
            req == [d |-> sr.request.d - 1, b |-> sr.request.b]
        IN (sr.request.d > 0 /\ j # 0 /\ RequestArg(calls[j]) # NoExpr)
             => IF RequestArg(calls[j]) = req
                THEN WrongRequestOf(sr) = {}
                ELSE /\ Cardinality(WrongRequestOf(sr)) = 1
                     /\ \A n \in WrongRequestOf(sr) :
                           /\ diags[n].got = RequestArg(calls[j])
                           /\ diags[n].want = req
                           /\ diags[n].pos = <<"call", j, "request">>

\* C8 witness: one route with request type *string, one client sending an
\* int and reported, and one route whose client sends the right type
C8_Witness ==
    /\ pc = "done"
    /\ \E key \in DOMAIN routes :
          /\ routes[key].request = NewPointer(TString)
          /\ FirstCallOf(key) # 0
          /\ RequestArg(calls[FirstCallOf(key)]) = TInt
          /\ Cardinality(WrongRequestOf(routes[key])) = 1

\* C8 witness of the other case: the client sends the pointee type
C8_WitnessSame ==
    /\ pc = "done"
    /\ \E key \in DOMAIN routes :
          /\ routes[key].request = NewPointer(TString)
          /\ FirstCallOf(key) # 0
          /\ RequestArg(calls[FirstCallOf(key)]) = TString
          /\ WrongRequestOf(routes[key]) = {}

\* C9: after a run on one route GET /x/:i whose handler encodes a T and one
\* client call GET("/x/" + id, &resp), there is no diagnostic when resp is a
\* T, and a wrong response type diagnostic when it is not.
C9_PassIffSameType ==
    \A T \in {TString}, U \in {TString, TInt} :
        (/\ pc = "done"
         /\ elts = <<Elt("GET", pX, hEncode(T))>>
         /\ calls = <<ClientCall("GET", "", Add(Lit(sX), Ident), NoExpr, NewPointer(U))>>)
          => /\ (diags = <<>>) <=> (U = T)
             /\ U # T => \E n \in 1..Len(diags) :
                             diags[n].msg = "Client has wrong response type"

\* a path segment that is a format placeholder
IsPlaceholder(seg) == Len(seg) = 2 /\ seg[1] = "%" /\ seg[2] \in {"s", "d", "v"}

\* a path segment that is a parameter of a server template
IsParam(seg) == Len(seg) >= 1 /\ seg[1] \in {":", "*"}

\* the part of a client path before its query
BeforeQuery(path) ==
    IF \E n \in 1..Len(path) : path[n] = "?"
    THEN SubSeq(path, 1, Least({n \in 1..Len(path) : path[n] = "?"}) - 1)
    ELSE path

\* the client path cpath describes the endpoint of the template spath: it
\* is the template with a placeholder for each parameter, and maybe a query
Describes(cpath, spath) ==
    LET c == Split(BeforeQuery(cpath), "/")
        srv == Split(spath, "/")
    IN /\ Len(c) = Len(srv)
       /\ \A n \in 1..Len(srv) :
             IF IsParam(srv[n]) THEN IsPlaceholder(c[n]) ELSE c[n] = srv[n]

\* C10: a server route and a client call of the same method whose path
\* describes the route's template have the same normalized route.
C10_NormalizationJoin ==
    \A key \in DOMAIN routes, j \in 1..Len(calls) :
        LET sr == routes[key]
            cr == parseClientRoute(calls[j], <<"call", j>>, cprefix).r
        IN (cr.method = sr.method /\ Describes(cr.path, sr.path))
             => clientNormalizedRoute(cr) = serverNormalizedRoute(sr)

(***************************************************************************)
(* C11.  Normalization never makes two distinct server routes collide:     *)
(* two elements of the route map whose routes differ in method or in path  *)
(* template get different keys in the route table.                         *)
(***************************************************************************)
\* what parseServerRoute makes of the i-th element of the route map
Parsed(i) == parseServerRoute(elts[i], <<"elt", i>>, sprefix)

C11_NoCollision ==
    \A i, j \in 1..Len(elts) :
        (/\ Parsed(i).ok
         /\ Parsed(j).ok
         /\ <<Parsed(i).r.method, Parsed(i).r.path>> # <<Parsed(j).r.method, Parsed(j).r.path>>)
        => serverNormalizedRoute(Parsed(i).r) # serverNormalizedRoute(Parsed(j).r)

(***************************************************************************)
(* The extraction of server routes on its own: run has found both files    *)
(* and visits the elements of a route map whose handlers declare their     *)
(* request and response in every way, under every method.                  *)
(***************************************************************************)
\* number of elements of the route map in SpecShape
MaxShapes == 2

\* func(jc jape.Context) { jc.Custom(req, resp) }
hCustom(t, t2) == Handler(<<cCustom(t, t2)>>, <<Block(<<Stmt(<<1>>), Ret>>, <<>>)>>)

ShapeHandlers ==
    <<hEmpty,
      hEncode(TString),
      hDecode(NewPointer(TString)),
      hTwo(cDecode(NewPointer(TString)), cEncode(TString, 0)),
      hTwo(cEncode(TString, 0), cDecode(NewPointer(TString))),
      hTwo(cDecode(NewPointer(TString)), cPathParam(nN, 0)),
      hCustom(UntypedNil, UntypedNil),
      hCustom(NewPointer(TString), UntypedNil),
      hCustom(UntypedNil, TString),
      hCustom(NewPointer(TString), TString)>>

Methods == <<"GET", "POST", "PUT", "DELETE">>

RECURSIVE shapeElts(_)
shapeElts(n) ==
    IF n > Len(Methods) * Len(ShapeHandlers) THEN <<>>
    ELSE <<Elt(Methods[((n - 1) \div Len(ShapeHandlers)) + 1], pHello,
               ShapeHandlers[((n - 1) % Len(ShapeHandlers)) + 1])>> \o shapeElts(n + 1)

ShapeElts == shapeElts(1)

NextShape ==
    \/ ParseRoute(ShapeElts, MaxShapes)
    \/ CheckBlock

SpecShape == InitCSR /\ [][NextShape]_vars

(***************************************************************************)
(* C12.  A route's handler gets a method-shape diagnostic exactly when it  *)
(* breaks its method's rule: GET reads a request or writes no response,    *)
(* PUT reads no request or writes a response, DELETE reads a request or    *)
(* writes a response, POST never; the handler declares its types by        *)
(* Decode and Encode or by Custom(req, resp), nil standing for none.       *)
(***************************************************************************)
ShapeMsgs ==
    {"routes should not read a request object", "routes should read a request object",
     "routes should write a response object", "routes should not write a response object"}

\* the method-shape diagnostics reported for the i-th element
ShapeDiags(i) ==
    {n \in 1..Len(diags) :
        /\ diags[n].pos[1] = "elt"
        /\ diags[n].pos[2] = i
        /\ diags[n].msg \in ShapeMsgs}

ReadsRequest(h) ==
    \E k \in 1..Len(h.calls) :
        \/ h.calls[k].m = "Decode"
        \/ (h.calls[k].m = "Custom" /\ h.calls[k].t # UntypedNil)

WritesResponse(h) ==
    \E k \in 1..Len(h.calls) :
        \/ h.calls[k].m = "Encode"
        \/ (h.calls[k].m = "Custom" /\ h.calls[k].t2 # UntypedNil)

BreaksShape(method, h) ==
    CASE method = "GET" -> ReadsRequest(h) \/ ~WritesResponse(h)
      [] method = "PUT" -> ~ReadsRequest(h) \/ WritesResponse(h)
      [] method = "DELETE" -> ReadsRequest(h) \/ WritesResponse(h)
      [] OTHER -> FALSE

C12_MethodShape ==
    \A i \in 1..Len(elts) :
        (ShapeDiags(i) # {}) <=> BreaksShape(elts[i].key[1], elts[i].handler)

(***************************************************************************)
(* C13.  When a method-shape violation is reported inside a handler, the   *)
(* extraction of that route aborts: no later call of the handler is        *)
(* processed, so the route's request, response and parameter types stay as *)
(* they were when the violation was met, and no route is recorded for the  *)
(* element; every other element of the route map is still extracted.       *)
(***************************************************************************)
\* the calls of the i-th element's handler a method-shape diagnostic points at
ShapeCalls(i) ==
    {diags[n].pos[3] : n \in {m \in ShapeDiags(i) : Len(diags[m].pos) = 4}}

\* the walk over the first k calls of the i-th element's handler
WalkTo(i, k) ==
    inspectCalls(SubSeq(elts[i].handler.calls, 1, k), 1,
                 [r |-> [method |-> elts[i].key[1],
                         path |-> TrimPrefix(elts[i].key[2], sprefix),
                         pathParams |-> parsePathParams(TrimPrefix(elts[i].key[2], sprefix)),
                         request |-> NilType,
                         response |-> NilType,
                         queryParams |-> <<>>,
                         seen |-> FALSE],
                  dead |-> {}, diags |-> <<>>], <<"elt", i>>)

C13_ShapeViolationAborts ==
    \A i \in 1..Len(elts) :
        /\ \A k \in ShapeCalls(i) :
             /\ ~Parsed(i).ok
             /\ WalkTo(i, Len(elts[i].handler.calls)).r = WalkTo(i, k).r
        /\ (ShapeCalls(i) = {} /\ Parsed(i).ok)
             => serverNormalizedRoute(Parsed(i).r) \in DOMAIN routes

(***************************************************************************)
(* The comparison of the two sides on a route map and a client file whose  *)
(* routes have path and query parameters: run has found both files.        *)
(***************************************************************************)
\* number of elements of the route map, and of client calls, in SpecParity
MaxParityRoutes == 2
MaxParityCalls == 2

pQ == <<"/", "q">>
sQk == <<"/", "q", "?", "k", "=", "%", "d">>
sQjk == <<"/", "q", "?", "j", "=", "%", "d", "&", "k", "=", "%", "d">>

ParityElts ==
    <<Elt("GET", pQ, hTwo(cDecodeForm(nK, NewPointer(TInt)), cEncode(TString, 0))),
      Elt("GET", pX, hTwo(cDecodeParam(nI, NewPointer(TInt)), cEncode(TString, 0))),
      Elt("PUT", pR, hDecode(NewPointer(TString)))>>

ParityCalls ==
    <<ClientCall("GET", "", Sprintf(Lit(sQk), <<TInt>>), NoExpr, NewPointer(TString)),
      ClientCall("GET", "", Sprintf(Lit(sQjk), <<TInt, TString>>), NoExpr, NewPointer(TInt)),
      ClientCall("GET", "", Sprintf(Lit(sXfmt), <<TString>>), NoExpr, NewPointer(TInt)),
      ClientCall("GET", "", Sprintf(Lit(sXfmt), <<>>), NoExpr, NewPointer(TString)),
      ClientCall("PUT", "", Lit(pR), TInt, NoExpr),
      ClientCall("PUT", "", Lit(pR), TString, NoExpr),
      ClientCall("GET", "", Lit(sNope), NoExpr, NewPointer(TString))>>

InitParity ==
    /\ RuntimeIdle
    /\ pc = "server"
    /\ hasServer = TRUE
    /\ hasClient = TRUE
    /\ sprefix = <<>>
    /\ cprefix = <<>>
    /\ elts = <<>>
    /\ routes = <<>>
    /\ visited = {}
    /\ stack = <<>>
    /\ calls = <<>>
    /\ pending = {}
    /\ diags = <<>>
    /\ ret = ""

NextParity ==
    \/ ParseRoute(ParityElts, MaxParityRoutes)
    \/ CheckBlock
    \/ EndServer
    \/ ClientStep(ParityCalls, MaxParityCalls)
    \/ EndClient
    \/ ReportMissing
    \/ Finish

SpecParity == InitParity /\ [][NextParity]_vars

(***************************************************************************)
(* C14.  A client call whose fmt.Sprintf path has a number of arguments    *)
(* different from the number of path and form placeholders of its template *)
(* gets one "route contains ... parameters" diagnostic and is skipped: it  *)
(* yields no further diagnostic and marks no server route seen.            *)
(***************************************************************************)
\* the route parseClientRoute makes of the j-th client call
ClientRouteOf(j) == parseClientRoute(calls[j], <<"call", j>>, cprefix).r

ArgMismatch(j) ==
    /\ calls[j].path.t = "sprintf"
    /\ Len(calls[j].path.args) #
         Count2(ClientRouteOf(j).path, "/", "%") + Count2(ClientRouteOf(j).path, "=", "%")

C14_ArgMismatchSkipped ==
    /\ \A j \in 1..Len(calls) :
         ArgMismatch(j) =>
            /\ Cardinality(OfCall(j)) = 1
            /\ \A n \in OfCall(j) :
                 diags[n].msg = "route contains parameters, but arguments are supplied"
    /\ (\A j \in 1..Len(calls) : ArgMismatch(j))
          => \A key \in DOMAIN routes : ~routes[key].seen

(***************************************************************************)
(* C15.  Parity failures are reported independently and none suppresses    *)
(* another: every wrong request type, wrong response type, wrong           *)
(* path-parameter type, wrong or undefined query parameter, missing        *)
(* counterpart and duplicate reference of the input is reported, also the  *)
(* type mismatches of a client call that is itself a duplicate reference.  *)
(***************************************************************************)
\* the j-th client call has a diagnostic msg, about subj when subj is given
Reported(j, msg, subj) ==
    \E n \in OfCall(j) :
        /\ diags[n].msg = msg
        /\ subj # None => diags[n].subj = subj

\* the mismatches between the j-th client call and the server route sr
MismatchesReported(j, sr) ==
    LET cr == ClientRouteOf(j)
    IN /\ (cr.request # NoExpr /\ cr.request # elem(sr.request))
            => Reported(j, "Client has wrong request type", None)
       /\ (cr.response # NoExpr /\ cr.response # ptrTo(sr.response))
            => Reported(j, "Client has wrong response type", None)
       /\ \A i \in 1..Len(sr.pathParams) :
            (i <= Len(cr.pathParams) /\ cr.pathParams[i] # elem(sr.pathParams[i].typ))
               => Reported(j, "Client has wrong type for path parameter",
                           sr.pathParams[i].name)
       /\ \A name \in DOMAIN cr.queryParams :
            IF name \notin DOMAIN sr.queryParams
            THEN Reported(j, "Client references undefined query parameter", name)
            ELSE cr.args[cr.queryParams[name]] # elem(sr.queryParams[name])
                    => Reported(j, "Client has wrong type for query parameter", name)

C15_NoneSuppressesAnother ==
    pc \in {"client", "missing", "done"} =>
        /\ \A j \in 1..Len(calls) :
             IF KeyOfCall(j) \notin DOMAIN routes
             THEN Reported(j, "Client references route not defined by server", None)
             ELSE /\ MismatchesReported(j, routes[KeyOfCall(j)])
                  /\ (\E e \in 1..(j - 1) : KeyOfCall(e) = KeyOfCall(j))
                        => Reported(j, "Client references multiple times", None)
        /\ pc = "done" =>
             \A key \in DOMAIN routes :
                 (\A j \in 1..Len(calls) : KeyOfCall(j) # key)
                    => \E n \in 1..Len(diags) :
                         /\ diags[n].msg = "Client missing method"
                         /\ diags[n].subj = serverRouteString(routes[key])

(***************************************************************************)
(* C16.  run returns the error "no Client definition found", and reports   *)
(* no diagnostic, exactly when some file defines a route map and no file   *)
(* calls a jape.Client; when no file defines a route map it returns no     *)
(* error and reports no diagnostic, whatever the client files contain.     *)
(***************************************************************************)
C16_NoClientError ==
    pc = "done" =>
        /\ (ret = "no Client definition found") <=> (hasServer /\ ~hasClient)
        /\ ret # "no Client definition found" => ret = "nil"
        /\ ret = "no Client definition found" => diags = <<>>
        /\ ~hasServer => (ret = "nil" /\ diags = <<>>)

C16_Witness ==
    /\ pc = "done"
    /\ hasServer
    /\ ~hasClient
    /\ ret = "no Client definition found"
    /\ diags = <<>>

(***************************************************************************)
(* C17.  Determinism: for a fixed input the set of diagnostics run reports *)
(* is the same in every run, whatever the order in which range visits the  *)
(* route table and a client call's query parameters.  RefDiags is the set  *)
(* reported by the run that visits every map in one fixed order; every run *)
(* on the same route map and client file reports that set.                 *)
(***************************************************************************)
RangeOf(s) == {s[n] : n \in DOMAIN s}

\* checkSingleResponse on the handler h, from the invocations stk on
RECURSIVE refCheck(_, _, _, _)
refCheck(h, stk, vis, pos) ==
    IF stk = <<>> THEN <<>>
    ELSE IF stk[1][1] \in vis THEN refCheck(h, Tail(stk), vis, pos)
    ELSE LET res == checkBlock(h, stk[1][1], stk[1][2], pos)
         IN res.diags \o refCheck(h, res.calls \o Tail(stk), vis \cup {stk[1][1]}, pos)

\* the loop over the elements of the route map, from the i-th on
RECURSIVE refServer(_, _, _)
refServer(i, rts, ds) ==
    IF i > Len(elts) THEN <<rts, ds>>
    ELSE IF Parsed(i).ok
    THEN refServer(i + 1,
                   putRoute(rts, serverNormalizedRoute(Parsed(i).r), Parsed(i).r),
                   ds \o Parsed(i).diags
                      \o refCheck(elts[i].handler, allBlocks(elts[i].handler), {},
                                  <<"node", i>>))
    ELSE refServer(i + 1, rts, ds \o Parsed(i).diags)

\* the visit of the client calls, from the j-th on
RECURSIVE refClient(_, _, _)
refClient(j, rts, ds) ==
    IF j > Len(calls) THEN <<rts, ds>>
    ELSE LET pos == <<"call", j>>
             parsed == parseClientRoute(calls[j], pos, cprefix)
             key == KeyOfCall(j)
         IN IF key \notin DOMAIN rts
            THEN refClient(j + 1, rts, ds \o parsed.diags \o
                     <<Diag("Client references route not defined by server",
                            pos, clientRouteString(parsed.r), NoT, NoT)>>)
            ELSE IF rts[key].seen
            THEN refClient(j + 1, rts, ds \o parsed.diags \o
                     <<Diag("Client references multiple times",
                            pos, clientRouteString(parsed.r), NoT, NoT)>>)
            ELSE refClient(j + 1, [rts EXCEPT ![key] = markSeen(@)],
                           ds \o parsed.diags \o
                           compare(rts[key], parsed.r, pos,
                                   CHOOSE o \in Orders(DOMAIN parsed.r.queryParams) : TRUE))

RefDiags ==
    LET server == refServer(1, <<>>, <<>>)
        client == refClient(1, server[1], server[2])
    IN RangeOf(client[2]) \cup
       UNION {RangeOf(reportMissing(client[1][key])) : key \in DOMAIN client[1]}

C17_Deterministic == pc = "done" => RangeOf(diags) = RefDiags

\* a run whose order of visits shows: a call with two query parameters, each
\* reported, and a route table of two routes, each reported missing or seen
C17_Witness ==
    /\ pc = "done"
    /\ Cardinality(DOMAIN routes) > 1
    /\ \E j \in 1..Len(calls) :
         /\ Cardinality(DOMAIN ClientRouteOf(j).queryParams) > 1
         /\ Reported(j, "Client references undefined query parameter", None)
         /\ Reported(j, "Client has wrong type for query parameter", None)

(***************************************************************************)
(* encoding/json and net/http, as far as the runtime uses them.  A body is *)
(* a sequence of bytes; the bytes of the model are the braces and brackets *)
(* of JSON, "a" (one unit of content), " " (white space), "x" (a byte no   *)
(* JSON text holds at that place), the four letters of null and "\n".  A   *)
(* message is a sequence of pieces of text.                                *)
(***************************************************************************)
\* Go values handed to json: len is the number of elements or fields
Struct(k) == [kind |-> "struct", isnil |-> FALSE, len |-> k]
Slice(isnil, k) == [kind |-> "slice", isnil |-> isnil, len |-> k]
Map(isnil, k) == [kind |-> "map", isnil |-> isnil, len |-> k]
NilPointer == [kind |-> "ptr", isnil |-> TRUE, len |-> 0]
\* the nil interface value
NilValue == [kind |-> "nil", isnil |-> TRUE, len |-> 0]

Null == <<"n", "u", "l", "l">>

content(k) == [i \in 1..k |-> "a"]

\* json.Marshal
Marshal(v) ==
    IF v.isnil THEN Null
    ELSE IF v.kind = "slice" THEN <<"[">> \o content(v.len) \o <<"]">>
    ELSE <<"{">> \o content(v.len) \o <<"}">>

\* json.Encoder.Encode after SetIndent: the indented text and a newline
EncodeIndent(v) ==
    (IF v.isnil \/ v.len = 0 THEN Marshal(v)
     ELSE IF v.kind = "slice" THEN <<"[", " ">> \o content(v.len) \o <<" ", "]">>
     ELSE <<"{", " ">> \o content(v.len) \o <<" ", "}">>) \o <<"\n">>

\* the scanner of json.Decoder on the bytes read so far, from byte i on: open
\* is the bracket of the value being read ("" before its first byte) and n
\* the units of content met.  The result is [res, kind, len]; res is "value"
\* for a complete value, "syntax" for a syntax error and "more" when the
\* bytes end before the value does, and "pending" when they end with the
\* literal null, which only the byte after it, or the end of the input, ends.
RECURSIVE scan(_, _, _, _)
scan(bytes, i, open, n) ==
    IF i > Len(bytes) THEN [res |-> "more", kind |-> "", len |-> 0]
    ELSE IF open = ""
    THEN IF bytes[i] \in {" ", "\n"} THEN scan(bytes, i + 1, open, n)
         ELSE IF bytes[i] \in {"{", "["} THEN scan(bytes, i + 1, bytes[i], n)
         ELSE IF bytes[i] = "n"
         THEN IF Len(bytes) - i + 1 < Len(Null)
              THEN IF SubSeq(bytes, i, Len(bytes)) = SubSeq(Null, 1, Len(bytes) - i + 1)
                   THEN [res |-> "more", kind |-> "", len |-> 0]
                   ELSE [res |-> "syntax", kind |-> "", len |-> 0]
              ELSE IF SubSeq(bytes, i, i + Len(Null) - 1) # Null
              THEN [res |-> "syntax", kind |-> "", len |-> 0]
              ELSE IF Len(bytes) - i + 1 = Len(Null)
              THEN [res |-> "pending", kind |-> "null", len |-> 0]
              ELSE [res |-> "value", kind |-> "null", len |-> 0]
         ELSE [res |-> "syntax", kind |-> "", len |-> 0]
    ELSE IF bytes[i] \in {" ", "\n"} THEN scan(bytes, i + 1, open, n)
    ELSE IF bytes[i] = "a" THEN scan(bytes, i + 1, open, n + 1)
    ELSE IF open = "{" /\ bytes[i] = "}" THEN [res |-> "value", kind |-> "struct", len |-> n]
    ELSE IF open = "[" /\ bytes[i] = "]" THEN [res |-> "value", kind |-> "slice", len |-> n]
    ELSE [res |-> "syntax", kind |-> "", len |-> 0]

nonSpace(bytes) == \E i \in 1..Len(bytes) : bytes[i] \notin {" ", "\n"}

\* the error of http.MaxBytesReader and of a body that ends
MaxBytesError == "http: request body too large"
EOF == "EOF"

\* http.MaxBytesReader(w, body, n), read to its end: the bytes it delivers
\* and the error it ends with
MaxBytesReader(body, n) ==
    IF Len(body) > n THEN [data |-> SubSeq(body, 1, n), err |-> MaxBytesError]
    ELSE [data |-> body, err |-> EOF]

\* json.NewDecoder(r).Decode(v) for v a pointer to a struct, r a reader that
\* delivers data and ends with the error rerr: [len, err], err "" for nil.
\* The decoder scans what a read delivered before it looks at the read's error.
jsonDecode(data, rerr) ==
    LET s == scan(data, 1, "", 0)
        unmarshal == IF s.kind = "slice" THEN [len |-> 0, err |-> "cannot unmarshal array"]
                     ELSE [len |-> s.len, err |-> ""]
    IN CASE s.res = "syntax" -> [len |-> 0, err |-> "invalid character"]
         [] s.res = "value" -> unmarshal
         [] s.res = "pending" ->
              IF rerr = EOF THEN unmarshal ELSE [len |-> 0, err |-> rerr]
         [] OTHER ->
              IF rerr # EOF THEN [len |-> 0, err |-> rerr]
              ELSE IF nonSpace(data) THEN [len |-> 0, err |-> "unexpected EOF"]
              ELSE [len |-> 0, err |-> EOF]

(***************************************************************************)
(* http.ResponseWriter                                                     *)
(***************************************************************************)
StatusOK == 200
StatusNoContent == 204
StatusBadRequest == 400
StatusMethodNotAllowed == 405
StatusRequestEntityTooLarge == 413

\* Header().Set("Content-Type", ct): without effect once the header is sent
SetContentType(wr, ct) == IF wr.status = 0 THEN [wr EXCEPT !.ctype = ct] ELSE wr

\* WriteHeader(status): without effect once the header is sent
WriteHeader(wr, status) == IF wr.status = 0 THEN [wr EXCEPT !.status = status] ELSE wr

\* Write(bytes): sends the header with status 200 if it has not been sent
Write(wr, bytes) == [WriteHeader(wr, StatusOK) EXCEPT !.body = @ \o bytes]

\* http.Error(w, msg, code): the message and a newline, as plain text
httpError(wr, msg, code) ==
    Write(WriteHeader(SetContentType(wr, "text/plain; charset=utf-8"), code),
          msg \o <<"\n">>)

(***************************************************************************)
(* Context.  An error is [msg, ok]: ok says that it is nil.  A method that *)
(* returns an error yields [w, len, err]: the ResponseWriter after the     *)
(* call, the length of the value decoded into v, and the error returned.  *)
(***************************************************************************)
NilError == [msg |-> <<>>, ok |-> TRUE]
NewError(msg) == [msg |-> msg, ok |-> FALSE]

\* Context.Error
Error(wr, msg, status) ==
    [w |-> httpError(wr, msg, status), len |-> 0, err |-> NewError(msg)]

\* Decode's limit, 10 MB
DefaultLimit == 10000000

\* Context.DecodeLimit(v, n) on a request whose body is body
DecodeLimit(wr, body, n) ==
    LET rd == MaxBytesReader(body, n)
        res == jsonDecode(rd.data, rd.err)
    IN IF res.err # ""
       THEN IF res.err = MaxBytesError
            THEN Error(wr, <<"request body too large">>, StatusRequestEntityTooLarge)
            ELSE Error(wr, <<"couldn't decode request type: ", res.err>>, StatusBadRequest)
       ELSE [w |-> wr, len |-> res.len, err |-> NilError]

\* Context.Decode(v)
Decode(wr, body) == DecodeLimit(wr, body, DefaultLimit)

\* Encode without the test for empty slices and maps
EncodePlain(wr, v) ==
    IF v.kind = "nil" THEN WriteHeader(wr, StatusNoContent)
    ELSE Write(SetContentType(wr, "application/json"), EncodeIndent(v))

\* Context.Encode(v)
Encode(wr, v) ==
    IF v.kind = "nil" THEN WriteHeader(wr, StatusNoContent)
    ELSE LET wj == SetContentType(wr, "application/json")
         IN IF v.kind = "slice" /\ v.len = 0 THEN Write(wj, <<"[", "]", "\n">>)
            ELSE IF v.kind = "map" /\ v.len = 0 THEN Write(wj, <<"{", "}", "\n">>)
            ELSE Write(wj, EncodeIndent(v))

(***************************************************************************)
(* One exchange: a client sends a request, Mux hands it to the handler of  *)
(* the route "POST /foo", the client reads the response.                   *)
(***************************************************************************)
\* the longest body a peer sends
MaxBody == 3
\* the largest number of units of content in the data handed to Client.req
MaxData == 3
\* the largest limit a handler hands to DecodeLimit
MaxLimit == 3

BodyBytes == <<"{", "}", "a", " ", "x">>

RECURSIVE Pow(_, _)
Pow(b, e) == IF e = 0 THEN 1 ELSE b * Pow(b, e - 1)

\* the c-th body of k bytes
Body(k, c) == [i \in 1..k |-> BodyBytes[((c \div Pow(Len(BodyBytes), i - 1)) % Len(BodyBytes)) + 1]]

\* the values a handler hands to Encode
RtValues ==
    <<NilValue, NilPointer, Struct(0), Struct(1),
      Slice(TRUE, 0), Slice(FALSE, 0), Slice(FALSE, 1),
      Map(TRUE, 0), Map(FALSE, 0), Map(FALSE, 1)>>

\* Client.req up to http.DefaultClient.Do: data is marshalled into the body
\* unless it is nil; resp says whether the caller hands in a non-nil resp
ClientReq ==
    /\ rpc = "idle"
    /\ \E method \in {"POST", "GET"}, k \in 0..(MaxData + 1), resp \in BOOLEAN :
         hreq' = [method |-> method,
                  body |-> IF k > MaxData THEN <<>> ELSE Marshal(Struct(k)),
                  client |-> TRUE,
                  resp |-> resp]
    /\ rpc' = "sent"
    /\ UNCHANGED <<rw, hret, cret>>
    /\ UNCHANGED avars

\* any other HTTP client sends a POST request with a body of its choice
PeerSend ==
    /\ rpc = "idle"
    /\ \E k \in 0..MaxBody :
         \E c \in 0..(Pow(Len(BodyBytes), k) - 1) :
            hreq' = [method |-> "POST", body |-> Body(k, c), client |-> FALSE,
                     resp |-> FALSE]
    /\ rpc' = "sent"
    /\ UNCHANGED <<rw, hret, cret>>
    /\ UNCHANGED avars

\* what the router answers a request whose method has no route for the path
methodNotAllowed ==
    [w |-> httpError(NewWriter, <<"Method Not Allowed">>, StatusMethodNotAllowed),
     len |-> 0, err |-> NilError, called |-> FALSE, encoded |-> FALSE]

\* the handler of server_test.go, its limit n:
\*   var r req
\*   if c.DecodeLimit(&r, n) != nil { return }
\*   c.Encode(resp{Bar: hex.EncodeToString(r.Foo)})
fooHandler(body, n) ==
    LET d == DecodeLimit(NewWriter, body, n)
    IN IF ~d.err.ok
       THEN [w |-> d.w, len |-> d.len, err |-> d.err, called |-> TRUE, encoded |-> FALSE]
       ELSE [w |-> Encode(d.w, Struct(2 * d.len)), len |-> d.len, err |-> d.err,
             called |-> TRUE, encoded |-> TRUE]

\* the same handler with Decode in the place of DecodeLimit
decodeHandler(body) ==
    LET d == Decode(NewWriter, body)
    IN IF ~d.err.ok
       THEN [w |-> d.w, len |-> d.len, err |-> d.err, called |-> TRUE, encoded |-> FALSE]
       ELSE [w |-> Encode(d.w, Struct(2 * d.len)), len |-> d.len, err |-> d.err,
             called |-> TRUE, encoded |-> TRUE]

\* func(c Context) { c.Encode(v) }
encodeHandler(v) ==
    [w |-> Encode(NewWriter, v), len |-> 0, err |-> NilError, called |-> TRUE,
     encoded |-> TRUE]

\* Mux(map[string]Handler{"POST /foo": h}) serving the request: res is what
\* the handler does when it is called
mux(res) == IF hreq.method = "POST" THEN res ELSE methodNotAllowed

ServeFoo ==
    /\ rpc = "sent"
    /\ \E n \in 0..MaxLimit :
         LET res == mux(fooHandler(hreq.body, n))
         IN /\ rw' = res.w
            /\ hret' = [handler |-> "foo", res |-> res, limit |-> n, operand |-> NilValue]
    /\ rpc' = "served"
    /\ UNCHANGED <<hreq, cret>>
    /\ UNCHANGED avars

ServeDecode ==
    /\ rpc = "sent"
    /\ LET res == mux(decodeHandler(hreq.body))
       IN /\ rw' = res.w
          /\ hret' = [handler |-> "decode", res |-> res, limit |-> DefaultLimit, operand |-> NilValue]
    /\ rpc' = "served"
    /\ UNCHANGED <<hreq, cret>>
    /\ UNCHANGED avars

ServeEncode ==
    /\ rpc = "sent"
    /\ \E i \in 1..Len(RtValues) :
         LET res == mux(encodeHandler(RtValues[i]))
         IN /\ rw' = res.w
            /\ hret' = [handler |-> "encode", res |-> res, limit |-> 0, operand |-> RtValues[i]]
    /\ rpc' = "served"
    /\ UNCHANGED <<hreq, cret>>
    /\ UNCHANGED avars

\* the status the client sees: a handler that never writes sends 200
sentStatus(wr) == IF wr.status = 0 THEN StatusOK ELSE wr.status

\* Client.req from the response on: [len, err], len the length of the value
\* decoded into resp
clientResult(wr, resp) ==
    IF ~(200 <= sentStatus(wr) /\ sentStatus(wr) < 300)
    THEN [len |-> 0, err |-> NewError(wr.body)]
    ELSE IF ~resp THEN [len |-> 0, err |-> NilError]
    ELSE LET d == jsonDecode(wr.body, EOF)
         IN [len |-> d.len, err |-> IF d.err = "" THEN NilError ELSE NewError(<<d.err>>)]

\* Client.req returns
ClientReturn ==
    /\ rpc = "served"
    /\ hreq.client
    /\ cret' = clientResult(rw, hreq.resp)
    /\ rpc' = "returned"
    /\ UNCHANGED <<hreq, rw, hret>>
    /\ UNCHANGED avars

\* the analyzer does not run
AnalyzerIdle ==
    /\ pc = "done"
    /\ hasServer = FALSE
    /\ hasClient = FALSE
    /\ sprefix = <<>>
    /\ cprefix = <<>>
    /\ elts = <<>>
    /\ routes = <<>>
    /\ visited = {}
    /\ stack = <<>>
    /\ calls = <<>>
    /\ pending = {}
    /\ diags = <<>>
    /\ ret = ""

InitRuntime ==
    /\ AnalyzerIdle
    /\ RuntimeIdle

NextRuntime ==
    \/ ClientReq
    \/ PeerSend
    \/ ServeFoo
    \/ ServeDecode
    \/ ServeEncode
    \/ ClientReturn

SpecRuntime == InitRuntime /\ [][NextRuntime]_vars

(***************************************************************************)
(* C18.  DecodeLimit(v, n) on a request body larger than n bytes writes    *)
(* the error "request body too large" with status 413 and returns it, and  *)
(* never the error "couldn't decode request type" (status 400); a          *)
(* malformed body within the limit yields that generic error and never the *)
(* too-large error; Decode(v) is DecodeLimit(v, 10 MB).                    *)
(***************************************************************************)
\* the handler of the exchange has called DecodeLimit or Decode on the body
Decoded ==
    /\ rpc \in {"served", "returned"}
    /\ hret.handler \in {"foo", "decode"}
    /\ hret.res.called

\* the body starts with a complete JSON object
StartsWithValue(b) ==
    \E i, j \in 1..Len(b) :
        /\ i < j
        /\ b[i] = "{"
        /\ b[j] = "}"
        /\ \A k \in 1..(i - 1) : b[k] = " "
        /\ \A k \in (i + 1)..(j - 1) : b[k] \in {"a", " "}

TooLargeWritten ==
    /\ hret.res.err = NewError(<<"request body too large">>)
    /\ rw.status = StatusRequestEntityTooLarge
    /\ SubSeq(rw.body, 1, 1) = <<"request body too large">>

GenericWritten ==
    /\ ~hret.res.err.ok
    /\ Head(hret.res.err.msg) = "couldn't decode request type: "
    /\ rw.status = StatusBadRequest
    /\ SubSeq(rw.body, 1, 1) = <<"couldn't decode request type: ">>

C18_TooLargeDistinct ==
    Decoded =>
        /\ Len(hreq.body) > hret.limit => (TooLargeWritten /\ ~GenericWritten)
        /\ (Len(hreq.body) <= hret.limit /\ ~StartsWithValue(hreq.body))
              => (GenericWritten /\ ~TooLargeWritten)
        /\ Decode(NewWriter, hreq.body) = DecodeLimit(NewWriter, hreq.body, 10 * 1000 * 1000)


(***************************************************************************)
(* C19.  Through a Mux route whose handler calls DecodeLimit(&r, n) and    *)
(* then Encode, Client.req with a body of more than n bytes returns an     *)
(* error whose message is exactly "request body too large" and the handler *)
(* does not reach Encode; with a body within n bytes it returns nil and    *)
(* resp holds the value the handler encoded.                               *)
(***************************************************************************)
\* Client.req has returned from a request with data that the route's handler served
ReqReturned ==
    /\ rpc = "returned"
    /\ hret.handler = "foo"
    /\ hret.res.called
    /\ hreq.body # <<>>

C19_ClientSeesTooLarge ==
    ReqReturned =>
        /\ Len(hreq.body) > hret.limit =>
              /\ cret.err = NewError(<<"request body too large">>)
              /\ ~hret.res.encoded
        /\ (Len(hreq.body) <= hret.limit /\ hreq.resp) =>
              /\ cret.err = NilError
              /\ hret.res.encoded
              /\ cret.len = 2 * hret.res.len
              /\ Marshal(Struct(hret.res.len)) = hreq.body


(***************************************************************************)
(* C20.  Encode never writes JSON null for an empty collection: a slice of *)
(* length 0, nil or not, is written as "[]" and a map of length 0, nil or  *)
(* not, as "{}", each followed by a newline and with the Content-Type      *)
(* application/json; the untyped nil is answered with status 204 and no    *)
(* body.                                                                   *)
(***************************************************************************)
\* the handler of the exchange has called Encode(v), v its operand
EncodeCalled ==
    /\ rpc \in {"served", "returned"}
    /\ hret.handler = "encode"
    /\ hret.res.called

C20_EmptyCollectionsNotNull ==
    EncodeCalled =>
        LET v == hret.operand
        IN /\ (v.kind = "slice" /\ v.len = 0) =>
                 /\ rw.body = <<"[", "]", "\n">>
                 /\ rw.ctype = "application/json"
                 /\ rw.status = StatusOK
           /\ (v.kind = "map" /\ v.len = 0) =>
                 /\ rw.body = <<"{", "}", "\n">>
                 /\ rw.ctype = "application/json"
                 /\ rw.status = StatusOK
           /\ (v.kind \in {"slice", "map"} /\ Len(rw.body) >= Len(Null)) =>
                 SubSeq(rw.body, 1, Len(Null)) # Null
           /\ v = NilValue =>
                 /\ rw.status = StatusNoContent
                 /\ rw.body = <<>>
                 /\ rw.ctype = ""

\* Encode has been called with a nil slice, which json.Marshal writes as null
C20_Witness ==
    /\ EncodeCalled
    /\ hret.operand = Slice(TRUE, 0)
    /\ Marshal(hret.operand) = Null
    /\ rw.body = <<"[", "]", "\n">>


(***************************************************************************)
(* HTTP Basic Authentication.  A user name or password is a sequence of    *)
(* characters; an Authorization header is [scheme, valid, text]: valid     *)
(* says that what follows the scheme is base64, text is what it decodes    *)
(* to.  A request without the header carries NoAuth.                       *)
(***************************************************************************)
StatusUnauthorized == 401

\* the longest user name or password
MaxCred == 2

CredBytes == <<"p", "q", ":">>

\* the c-th string of k characters
Cred(k, c) == [i \in 1..k |-> CredBytes[((c \div Pow(Len(CredBytes), i - 1)) % Len(CredBytes)) + 1]]

NoAuth == [scheme |-> "", valid |-> FALSE, text |-> <<>>]

\* Request.SetBasicAuth(username, password)
SetBasicAuth(username, password) ==
    [scheme |-> "Basic", valid |-> TRUE, text |-> username \o <<":">> \o password]

\* strings.IndexByte(s, ":"), 0 when there is none
IndexColon(s) ==
    IF \E i \in 1..Len(s) : s[i] = ":"
    THEN CHOOSE i \in 1..Len(s) : s[i] = ":" /\ \A j \in 1..(i - 1) : s[j] # ":"
    ELSE 0

\* Request.BasicAuth(): [ok, username, password]
ParseBasicAuth(auth) ==
    IF auth.scheme # "Basic" \/ ~auth.valid \/ IndexColon(auth.text) = 0
    THEN [ok |-> FALSE, username |-> <<>>, password |-> <<>>]
    ELSE [ok |-> TRUE,
          username |-> SubSeq(auth.text, 1, IndexColon(auth.text) - 1),
          password |-> SubSeq(auth.text, IndexColon(auth.text) + 1, Len(auth.text))]

\* BasicAuth with the comparison of the password left out
BasicAuthAnyPassword(password, auth, h) ==
    IF ~ParseBasicAuth(auth).ok
    THEN [w |-> httpError(NewWriter, <<"Unauthorized">>, StatusUnauthorized),
          len |-> 0, err |-> NilError, called |-> FALSE, encoded |-> FALSE]
    ELSE h

\* BasicAuth(password)(h) serving a request whose Authorization header is
\* auth: h is what the wrapped handler does when it is called
BasicAuth(password, auth, h) ==
    IF ~ParseBasicAuth(auth).ok \/ ParseBasicAuth(auth).password # password
    THEN [w |-> httpError(NewWriter, <<"Unauthorized">>, StatusUnauthorized),
          len |-> 0, err |-> NilError, called |-> FALSE, encoded |-> FALSE]
    ELSE h

\* the header Client.req sets: none when Password is empty
clientAuth(password) ==
    IF password # <<>> THEN SetBasicAuth(<<>>, password) ELSE NoAuth

\* Client.req up to http.DefaultClient.Do, the client's Password any string
AuthClientReq ==
    /\ rpc = "idle"
    /\ \E k \in 0..MaxCred :
         \E c \in 0..(Pow(Len(CredBytes), k) - 1) :
            hreq' = [method |-> "POST", body |-> <<>>, client |-> TRUE, resp |-> FALSE,
                     password |-> Cred(k, c), auth |-> clientAuth(Cred(k, c))]
    /\ rpc' = "sent"
    /\ UNCHANGED <<rw, hret, cret>>
    /\ UNCHANGED avars

\* any other HTTP client sends a request without an Authorization header,
\* with one of another scheme, with one that is not base64, with one
\* without a colon, or with a user name and a password of its choice
AuthPeerSend ==
    /\ rpc = "idle"
    /\ \E auth \in {NoAuth,
                    [scheme |-> "Bearer", valid |-> TRUE, text |-> <<"p", ":", "p">>],
                    [scheme |-> "Basic", valid |-> FALSE, text |-> <<>>]}
                   \cup {[scheme |-> "Basic", valid |-> TRUE, text |-> Cred(k, c)] :
                           k \in 0..MaxCred, c \in 0..(Pow(Len(CredBytes), MaxCred) - 1)}
                   \cup {SetBasicAuth(Cred(k, c), Cred(k2, c2)) :
                           k \in 0..MaxCred, c \in 0..(Pow(Len(CredBytes), MaxCred) - 1),
                           k2 \in 0..MaxCred, c2 \in 0..(Pow(Len(CredBytes), MaxCred) - 1)} :
         hreq' = [method |-> "POST", body |-> <<>>, client |-> FALSE, resp |-> FALSE,
                  password |-> <<>>, auth |-> auth]
    /\ rpc' = "sent"
    /\ UNCHANGED <<rw, hret, cret>>
    /\ UNCHANGED avars

\* Mux(map[string]Handler{"POST /foo": Adapt(BasicAuth(password))(h)})
\* serving the request, h = func(c Context) { c.Encode(struct{}{}) }
ServeAuth ==
    /\ rpc = "sent"
    /\ \E k \in 0..MaxCred :
         \E c \in 0..(Pow(Len(CredBytes), k) - 1) :
            LET res == mux(BasicAuth(Cred(k, c), hreq.auth, encodeHandler(Struct(0))))
            IN /\ rw' = res.w
               /\ hret' = [handler |-> "auth", res |-> res, limit |-> 0,
                           operand |-> Struct(0), password |-> Cred(k, c)]
    /\ rpc' = "served"
    /\ UNCHANGED <<hreq, cret>>
    /\ UNCHANGED avars

NextAuth ==
    \/ AuthClientReq
    \/ AuthPeerSend
    \/ ServeAuth
    \/ ClientReturn

SpecAuth == InitRuntime /\ [][NextAuth]_vars

(***************************************************************************)
(* C21.  The handler wrapped by BasicAuth(password) is invoked if and only *)
(* if the request carries HTTP Basic credentials whose password equals the *)
(* configured password, whatever the user name; otherwise exactly one 401  *)
(* response is written and the wrapped handler is not invoked.             *)
(***************************************************************************)
\* BasicAuth(password)(h) has served the request
AuthServed ==
    /\ rpc \in {"served", "returned"}
    /\ hret.handler = "auth"

\* the request carries Basic credentials with this password: its header is
\* the one SetBasicAuth writes for some user name without a colon
CarriesPassword(auth, password) ==
    /\ auth.scheme = "Basic"
    /\ auth.valid
    /\ \E n \in 0..Len(auth.text) :
          /\ \A i \in 1..n : auth.text[i] # ":"
          /\ auth = SetBasicAuth(SubSeq(auth.text, 1, n), password)

C21_BasicAuthGate ==
    AuthServed =>
        /\ hret.res.called <=> CarriesPassword(hreq.auth, hret.password)
        /\ ~hret.res.called =>
              /\ rw.status = StatusUnauthorized
              /\ rw.body = <<"Unauthorized", "\n">>

\* a request with a user name and the configured password has reached the
\* wrapped handler
C21_Witness ==
    /\ AuthServed
    /\ hret.res.called
    /\ hreq.auth = SetBasicAuth(<<"q">>, <<"p">>)
    /\ hret.password = <<"p">>


(***************************************************************************)
(* C29.  A Client whose Password equals the password configured in the     *)
(* server's BasicAuth is authorized on every request it sends, for every   *)
(* password, the empty string included.                                    *)
(***************************************************************************)
\* the request was sent by a Client whose Password is the server's password
SamePassword ==
    /\ AuthServed
    /\ hreq.client
    /\ hreq.password = hret.password

C29_ClientAuthorized ==
    SamePassword =>
        /\ hret.res.called
        /\ rw.status # StatusUnauthorized
        /\ rpc = "returned" => cret.err = NilError


(***************************************************************************)
(* The extraction of one route whose handler is any sequence of Decode,    *)
(* Encode, DecodeParam and PathParam calls, one statement each: run has    *)
(* found both files and the route map has one element.                     *)
(***************************************************************************)
\* the longest handler, in calls
MaxSeq == 3

\* the calls a handler is made of: n is a parameter of the route's path, k
\* is not
ExtractCalls ==
    <<cDecode(NewPointer(TString)), cDecode(NewPointer(TInt)), cDecode(TString),
      cEncode(TString, 0), cEncode(TInt, 0),
      cDecodeParam(nN, NewPointer(TInt)), cDecodeParam(nN, TInt),
      cDecodeParam(nK, NewPointer(TInt)),
      cPathParam(nN, 0), cPathParam(nK, 0)>>

\* the c-th handler of len calls: func(jc jape.Context) { jc.X(..); jc.Y(..); .. }
seqHandler(len, c) ==
    Handler([k \in 1..len |->
                ExtractCalls[((c \div Pow(Len(ExtractCalls), k - 1)) % Len(ExtractCalls)) + 1]],
            <<Block([k \in 1..(len + 1) |-> IF k <= len THEN Stmt(<<k>>) ELSE Ret], <<>>)>>)

ExtractMethods == <<"GET", "POST">>

\* the route map's one element
ParseSeqRoute ==
    /\ pc = "server"
    /\ elts = <<>>
    /\ \E m \in 1..Len(ExtractMethods), len \in 0..MaxSeq :
          \E c \in 0..(Pow(Len(ExtractCalls), len) - 1) :
             ParseElt(Elt(ExtractMethods[m], pHello, seqHandler(len, c)), 1)

NextExtract ==
    \/ ParseSeqRoute
    \/ CheckBlock

InitExtract ==
    /\ InitCSR
    /\ sprefix = <<>>

SpecExtract == InitExtract /\ [][NextExtract]_vars


(***************************************************************************)
(* C22.  Within one handler, a Decode (or Encode) call whose argument type *)
(* differs from the type recorded by an earlier Decode (or Encode) is      *)
(* reported ("Decode called on X, but was previously called on Y"), and    *)
(* the route's recorded request (response) type stays the first recorded   *)
(* type after any sequence of such calls.                                  *)
(***************************************************************************)
\* the calls of the i-th element's handler before the k-th that record a
\* request type: the Decode calls on a pointer, in a route that may read
RecordingDecodes(i, k) ==
    {j \in 1..(k - 1) :
        /\ elts[i].key[1] \in {"POST", "PUT"}
        /\ elts[i].handler.calls[j].m = "Decode"
        /\ isPtr(elts[i].handler.calls[j].t)}

\* the Encode calls before the k-th, in a route that may write
RecordingEncodes(i, k) ==
    {j \in 1..(k - 1) :
        /\ elts[i].key[1] \in {"GET", "POST"}
        /\ elts[i].handler.calls[j].m = "Encode"}

\* the type the first of the calls J recorded, NilType when J is empty
FirstType(i, J) ==
    IF J = {} THEN NilType ELSE elts[i].handler.calls[Least(J)].t

\* the diagnostic msg is reported at the k-th call of the i-th element's
\* handler, with the types got and want
ReportedAt(i, k, msg, got, want) ==
    \E n \in 1..Len(diags) :
        /\ diags[n].msg = msg
        /\ SubSeq(diags[n].pos, 1, 3) = <<"elt", i, k>>
        /\ diags[n].got = got
        /\ diags[n].want = want

\* the recorded types are the first recorded ones once the walk is over
StaysFirst(i) ==
    LET n == Len(elts[i].handler.calls)
    IN /\ WalkTo(i, n).r.request = FirstType(i, RecordingDecodes(i, n + 1))
       /\ WalkTo(i, n).r.response = FirstType(i, RecordingEncodes(i, n + 1))

C22_ConflictReported ==
    \A i \in 1..Len(elts) :
        /\ \A k \in 1..Len(elts[i].handler.calls) :
             LET c == elts[i].handler.calls[k]
                 req == FirstType(i, RecordingDecodes(i, k))
                 resp == FirstType(i, RecordingEncodes(i, k))
             IN /\ (c.m = "Decode" /\ req # NilType /\ c.t # req) =>
                      ReportedAt(i, k, "Decode called on, but was previously called on",
                                 c.t, req)
                /\ (c.m = "Encode" /\ resp # NilType /\ c.t # resp) =>
                      ReportedAt(i, k, "Encode called on, but was previously called on",
                                 c.t, resp)
        /\ StaysFirst(i)

\* the same, a Decode on a value that is not a pointer being reported as
\* such and not as a conflict
C22_PointerConflictReported ==
    \A i \in 1..Len(elts) :
        /\ \A k \in 1..Len(elts[i].handler.calls) :
             LET c == elts[i].handler.calls[k]
                 req == FirstType(i, RecordingDecodes(i, k))
                 resp == FirstType(i, RecordingEncodes(i, k))
             IN /\ (c.m = "Decode" /\ req # NilType /\ c.t # req /\ isPtr(c.t)) =>
                      ReportedAt(i, k, "Decode called on, but was previously called on",
                                 c.t, req)
                /\ (c.m = "Decode" /\ req # NilType /\ ~isPtr(c.t)) =>
                      /\ ReportedAt(i, k, "Decode called on non-pointer value", NoT, NoT)
                      /\ ~ReportedAt(i, k, "Decode called on, but was previously called on",
                                     c.t, req)
                /\ (c.m = "Encode" /\ resp # NilType /\ c.t # resp) =>
                      ReportedAt(i, k, "Encode called on, but was previously called on",
                                 c.t, resp)
        /\ StaysFirst(i)

\* a handler has called Decode on *string, then on *int and on *int again
\* (both reported), and the request type is still *string
C22_Witness ==
    /\ Len(elts) = 1
    /\ elts[1].key[1] = "POST"
    /\ elts[1].handler.calls = <<cDecode(NewPointer(TString)), cDecode(NewPointer(TInt)),
                                 cDecode(NewPointer(TInt))>>
    /\ ReportedAt(1, 2, "Decode called on, but was previously called on",
                  NewPointer(TInt), NewPointer(TString))
    /\ ReportedAt(1, 3, "Decode called on, but was previously called on",
                  NewPointer(TInt), NewPointer(TString))
    /\ WalkTo(1, 3).r.request = NewPointer(TString)


(***************************************************************************)
(* C23.  A DecodeParam or PathParam call on a name that is not a parameter *)
(* of the route's path template is reported and records nothing; for a     *)
(* name of the template, the first read fixes the parameter's recorded     *)
(* type (PathParam counts as *string) and every later read with another    *)
(* type is reported and leaves the recorded type unchanged.                *)
(***************************************************************************)
IsRead(c) == c.m \in {"DecodeParam", "PathParam"}

\* the type a read asks for
ReadType(c) == IF c.m = "PathParam" THEN NewPointer(TString) ELSE c.t

\* the names of the parameters of the i-th element's path template
TemplateNames(i) ==
    LET split == Split(TrimPrefix(elts[i].key[2], sprefix), "/")
    IN {Tail(split[n]) : n \in {m \in 1..Len(split) : Len(split[m]) > 0 /\ split[m][1] \in {":", "*"}}}

\* the type recorded for the parameter name after the first k calls
ParamType(i, k, name) ==
    LET pp == WalkTo(i, k).r.pathParams
    IN pp[findParam(pp, name)].typ

\* the reads of name before the k-th call; with ptr, those on a pointer only
ReadsBefore(i, k, name, ptr) ==
    {j \in 1..(k - 1) :
        /\ IsRead(elts[i].handler.calls[j])
        /\ elts[i].handler.calls[j].name = name
        /\ ptr => isPtr(ReadType(elts[i].handler.calls[j]))}

AbsentReported(i, k) ==
    LET c == elts[i].handler.calls[k]
    IN /\ \/ ReportedAt(i, k, "DecodeParam called on param not present in route definition", NoT, NoT)
          \/ ReportedAt(i, k, "PathParam called on param not present in route definition", NoT, NoT)
       /\ WalkTo(i, k).r.pathParams = WalkTo(i, k - 1).r.pathParams

\* the k-th call reads a parameter of the template: ptr says whether only
\* reads on a pointer count as reads that record
ReadRecorded(i, k, ptr) ==
    LET c == elts[i].handler.calls[k]
        prev == ReadsBefore(i, k, c.name, ptr)
        first == ReadType(elts[i].handler.calls[Least(prev)])
    IN IF prev = {}
       THEN (ptr => isPtr(ReadType(c))) => ParamType(i, k, c.name) = ReadType(c)
       ELSE /\ ParamType(i, k, c.name) = first
            /\ ReadType(c) # first =>
                  ReportedAt(i, k, "Param decoded as, but was previously decoded as",
                             ReadType(c), first)

C23_FirstReadFixes ==
    \A i \in 1..Len(elts) :
        \A k \in 1..Len(elts[i].handler.calls) :
            IsRead(elts[i].handler.calls[k]) =>
                IF elts[i].handler.calls[k].name \in TemplateNames(i)
                THEN ReadRecorded(i, k, FALSE)
                ELSE AbsentReported(i, k)

\* the same, the reads that record being the reads on a pointer: a
\* DecodeParam on a value that is not a pointer, nothing being recorded yet,
\* is reported as such and records nothing
C23_FirstPointerReadFixes ==
    \A i \in 1..Len(elts) :
        \A k \in 1..Len(elts[i].handler.calls) :
            LET c == elts[i].handler.calls[k]
            IN IsRead(c) =>
                  IF c.name \in TemplateNames(i)
                  THEN /\ ReadRecorded(i, k, TRUE)
                       /\ (~isPtr(ReadType(c)) /\ ReadsBefore(i, k, c.name, TRUE) = {}) =>
                             /\ ReportedAt(i, k, "DecodeParam called on non-pointer value", NoT, NoT)
                             /\ ParamType(i, k, c.name) = NilType
                  ELSE AbsentReported(i, k)

\* a handler has read the parameter n as *int, then through PathParam
\* (reported), and has read a name that the template does not have
C23_Witness ==
    /\ Len(elts) = 1
    /\ elts[1].handler.calls = <<cDecodeParam(nN, NewPointer(TInt)), cPathParam(nN, 0),
                                 cPathParam(nK, 0)>>
    /\ ReportedAt(1, 2, "Param decoded as, but was previously decoded as",
                  NewPointer(TString), NewPointer(TInt))
    /\ ReportedAt(1, 3, "PathParam called on param not present in route definition", NoT, NoT)
    /\ ParamType(1, 3, nN) = NewPointer(TInt)


(***************************************************************************)
(* The single-response checker on one handler that branches on a condition *)
(* of any shape:                                                           *)
(*     jc.Error(..); ..; if COND { return }; jc.Encode(v)                  *)
(* COND is a chain of comparisons joined by && and ||.  go/cfg keeps the   *)
(* whole condition as the last node of the entry block (it does not model  *)
(* the short-circuit operators).                                           *)
(***************************************************************************)
\* the most comparisons in a condition, and the most writes before it
MaxConds == 2
MaxPre == 1

\* jc.Check(..) != nil, jc.Check(..) == nil, nil != jc.Check(..), err != nil,
\* jc.Check(..) != err
AtomKinds == <<"w!=", "w==", "nil!=w", "v!=", "w!=v">>

atomAt(c, j) == AtomKinds[((c \div Pow(Len(AtomKinds), j - 1)) % Len(AtomKinds)) + 1]

opAt(o, j) == IF (o \div Pow(2, j - 1)) % 2 = 0 THEN "||" ELSE "&&"

\* the number of jc.Check calls in the first j comparisons
writesUpTo(c, j) == Cardinality({x \in 1..j : atomAt(c, x) # "v!="})

\* the comparison of that kind, k the index of its call
atomExpr(kind, k) ==
    CASE kind = "w!=" -> Bin("!=", Jc(k), Nil)
      [] kind = "w==" -> Bin("==", Jc(k), Nil)
      [] kind = "nil!=w" -> Bin("!=", Nil, Jc(k))
      [] kind = "v!=" -> Bin("!=", Var, Nil)
      [] OTHER -> Bin("!=", Jc(k), Var)

\* the condition of n comparisons c joined (to the left) by the operators o
RECURSIVE condExpr(_, _, _, _)
condExpr(pre, n, c, o) ==
    IF n = 1 THEN atomExpr(atomAt(c, 1), pre + writesUpTo(c, 1))
    ELSE Bin(opAt(o, n - 1), condExpr(pre, n - 1, c, o),
             atomExpr(atomAt(c, n), pre + writesUpTo(c, n)))

\* blocks: entry, if.then, if.done, unreachable.return
condHandler(pre, n, c, o) ==
    LET nw == writesUpTo(c, n)
    IN Handler([k \in 1..(pre + nw + 1) |->
                   IF k <= pre THEN cError
                   ELSE IF k <= pre + nw THEN cCheck ELSE cEncode(TString, 0)],
               <<Block([k \in 1..(pre + 1) |->
                          IF k <= pre THEN Stmt(<<k>>)
                          ELSE Node([x \in 1..nw |-> pre + x], condExpr(pre, n, c, o))],
                       <<2, 3>>),
                 Block(<<Ret>>, <<>>),
                 Block(<<Stmt(<<pre + nw + 1>>), Ret>>, <<>>),
                 Block(<<>>, <<3>>)>>)

\* the route map's one element
ParseCondRoute ==
    /\ pc = "server"
    /\ elts = <<>>
    /\ \E pre \in 0..MaxPre, n \in 1..MaxConds :
          \E c \in 0..(Pow(Len(AtomKinds), n) - 1), o \in 0..(Pow(2, n - 1) - 1) :
             ParseElt(Elt("POST", pHello, condHandler(pre, n, c, o)), 1)

NextCond ==
    \/ ParseCondRoute
    \/ CheckBlock

SpecCond == InitExtract /\ [][NextCond]_vars


(***************************************************************************)
(* C24.  When the condition of a two-way branch contains a response-       *)
(* writing call and is anything other than a pure conjunction of           *)
(* `write == nil` comparisons or a pure disjunction of `write != nil`      *)
(* comparisons, checkBlock reports a diagnostic at the condition and       *)
(* explores neither successor from that block; for an accepted `!= nil`    *)
(* shape the true branch carries the write and the false branch goes on    *)
(* with no write recorded, and for `== nil` the reverse.                   *)
(***************************************************************************)
\* the handler being checked, and the block and the condition checkBlock is
\* about to be invoked on
CurHandler == elts[Len(elts)].handler
CurBlock == CurHandler.blocks[stack[1][1]]
CurCond == CurBlock.nodes[Len(CurBlock.nodes)]

\* e is a chain of comparisons `write cmp nil` joined by op only
RECURSIVE Pure(_, _, _, _)
Pure(h, e, cmp, op) ==
    /\ e.t = "bin"
    /\ \/ /\ e.op = cmp
          /\ e.X.t = "jc"
          /\ h.calls[e.X.k].m \in NamedWrites
          /\ e.Y.t = "nil"
       \/ /\ e.op = op
          /\ Pure(h, e.X, cmp, op)
          /\ Pure(h, e.Y, cmp, op)

\* checkBlock is about to run on a two-way branch whose condition contains a
\* write
AtWriteCond ==
    /\ pc = "csr"
    /\ stack # <<>>
    /\ stack[1][1] \notin visited
    /\ Len(CurBlock.succs) = 2
    /\ Len(CurBlock.nodes) # 0
    /\ \E x \in 1..Len(CurCond.calls) : CurHandler.calls[CurCond.calls[x]].m \in NamedWrites

\* no write is recorded when the condition is reached
NoEarlierWrite ==
    /\ stack[1][2] = NoWrite
    /\ \A n \in 1..(Len(CurBlock.nodes) - 1) :
          \A x \in 1..Len(CurBlock.nodes[n].calls) :
              CurHandler.calls[CurBlock.nodes[n].calls[x]].m \notin NamedWrites

\* what the claim says checkBlock does with the condition
CondOutcome ==
    LET b == stack[1][1]
        write == <<b, Len(CurBlock.nodes)>>
    IN IF Pure(CurHandler, CurCond.cond, "!=", "||")
       THEN /\ diags' = diags
            /\ stack' = <<<<CurBlock.succs[1], write>>, <<CurBlock.succs[2], NoWrite>>>>
                        \o Tail(stack)
       ELSE IF Pure(CurHandler, CurCond.cond, "==", "&&")
       THEN /\ diags' = diags
            /\ stack' = <<<<CurBlock.succs[1], NoWrite>>, <<CurBlock.succs[2], write>>>>
                        \o Tail(stack)
       ELSE /\ Len(diags') = Len(diags) + 1
            /\ diags'[Len(diags')].pos = <<"node", Len(elts)>> \o write
            /\ diags'[Len(diags')].msg \in {"Weird condition expression",
                                            "Condition may write multiple responses"}
            /\ stack' = Tail(stack)

C24_WeirdCondition == [][AtWriteCond => CondOutcome]_vars

\* the same when no write is recorded on reaching the condition; when one
\* is, the second write is reported and neither successor is explored
C24_WeirdConditionFirstWrite ==
    [][AtWriteCond =>
          IF NoEarlierWrite THEN CondOutcome
          ELSE /\ Len(diags') = Len(diags) + 1
               /\ diags'[Len(diags')].msg = "Handler writes multiple responses"
               /\ stack' = Tail(stack)]_vars

\* checkBlock has met `jc.Check(..) != nil || jc.Check(..) == nil`, has
\* reported it and has gone on with the blocks the loop over g.Blocks visits
C24_Witness ==
    /\ Len(elts) = 1
    /\ elts[1].handler = condHandler(0, 2, 5, 0)
    /\ visited = {1}
    /\ diags = <<Diag("Weird condition expression", <<"node", 1, 1, 1>>, None, NoT, NoT)>>
    /\ stack = <<<<2, NoWrite>>, <<3, NoWrite>>, <<4, NoWrite>>>>


(***************************************************************************)
(* A route map that declares a route twice: "GET /x/:i" and "GET /x/*i"    *)
(* have the same normalized key, with handlers of different response       *)
(* types; a third declaration of the key has a handler the extraction      *)
(* rejects.  run has found both files.                                     *)
(***************************************************************************)
\* number of elements of the route map, and of client calls, in SpecDup
MaxDupRoutes == 3
MaxDupCalls == 2

DupElts ==
    <<Elt("GET", pX, hEncode(TString)),
      Elt("GET", pXstar, hEncode(TInt)),
      Elt("GET", pX, hEmpty),
      Elt("PUT", pR, hDecode(NewPointer(TString)))>>

DupCalls ==
    <<ClientCall("GET", "", Sprintf(Lit(sXfmt), <<TString>>), NoExpr, NewPointer(TString)),
      ClientCall("GET", "", Add(Lit(sX), Ident), NoExpr, NewPointer(TInt)),
      ClientCall("PUT", "", Lit(pR), TString, NoExpr)>>

NextDup ==
    \/ ParseRoute(DupElts, MaxDupRoutes)
    \/ CheckBlock
    \/ EndServer
    \/ ClientStep(DupCalls, MaxDupCalls)
    \/ EndClient
    \/ ReportMissing
    \/ Finish

SpecDup == InitParity /\ [][NextDup]_vars

(***************************************************************************)
(* C25.  After any sequence of route declarations the route table holds at *)
(* most one route per normalized key; when two declarations have the same  *)
(* key the later one in source order replaces the earlier, no diagnostic   *)
(* reports the collision, and the replaced route is never compared with a  *)
(* client call or reported as missing.                                     *)
(***************************************************************************)
\* the declarations that yield a route of key k
DeclsOf(k) ==
    {i \in 1..Len(elts) : Parsed(i).ok /\ serverNormalizedRoute(Parsed(i).r) = k}

Greatest(S) == CHOOSE n \in S : \A m \in S : m <= n

\* the i-th declaration's route was replaced by a route written differently
Replaced(i) ==
    /\ Parsed(i).ok
    /\ i # Greatest(DeclsOf(serverNormalizedRoute(Parsed(i).r)))
    /\ serverRouteString(Parsed(i).r) #
          serverRouteString(routes[serverNormalizedRoute(Parsed(i).r)])

C25_LastDeclarationWins ==
    /\ \A i \in 1..Len(elts) :
          Parsed(i).ok => serverNormalizedRoute(Parsed(i).r) \in DOMAIN routes
    /\ \A k \in DOMAIN routes :
          /\ DeclsOf(k) # {}
          /\ [routes[k] EXCEPT !.seen = FALSE] = Parsed(Greatest(DeclsOf(k))).r
    /\ \A n \in 1..Len(diags) :
          diags[n].pos[1] = "elt" =>
              \E x \in 1..Len(Parsed(diags[n].pos[2]).diags) :
                  Parsed(diags[n].pos[2]).diags[x] = diags[n]
    /\ \A i \in 1..Len(elts) :
          Replaced(i) =>
              \A n \in 1..Len(diags) : diags[n].subj # serverRouteString(Parsed(i).r)

\* run has ended on a route map that declares "GET /x/:i" and then
\* "GET /x/*i"; a client call was compared with the second
C25_Witness ==
    /\ pc = "done"
    /\ Len(elts) = 2
    /\ Replaced(1)
    /\ \E n \in 1..Len(diags) :
          /\ diags[n].msg = "Client has wrong response type"
          /\ diags[n].subj = serverRouteString(Parsed(2).r)


(***************************************************************************)
(* The single-response checker under fair scheduling: an invocation of     *)
(* checkBlock that is pending is made (the analyzer is a sequential        *)
(* program that runs on).                                                  *)
(***************************************************************************)
SpecCSRLive == SpecCSR /\ WF_vars(CheckBlock)

(***************************************************************************)
(* C26.  The traversal of checkSingleResponse terminates on every handler  *)
(* control-flow graph, graphs with cycles (loops) included: checkBlock     *)
(* processes each block at most once per handler, whatever the write-state *)
(* it is entered with.                                                     *)
(***************************************************************************)
\* an invocation on a block already visited returns at once; an invocation
\* on another block marks it, and no mark is lost while the handler is
\* being checked
OncePerBlock ==
    (pc = "csr" /\ stack # <<>>) =>
        /\ stack[1][1] \in visited =>
              /\ diags' = diags
              /\ stack' = Tail(stack)
              /\ visited' = visited
        /\ stack[1][1] \notin visited => visited' = visited \cup {stack[1][1]}

C26_TraversalTerminates ==
    /\ [][OncePerBlock]_vars
    /\ (pc = "csr") ~> (pc = "server")

\* the traversal of the handler that writes in a loop has ended, each of
\* its four blocks visited
C26_Witness ==
    /\ pc = "server"
    /\ Len(elts) = 1
    /\ elts[1].handler = hLoop(TString)
    /\ visited = 1..4
    /\ stack = <<>>


(***************************************************************************)
(* C28.  When a handler never reads one of its route's path parameters, so *)
(* that the parameter's recorded type stays unset, the comparison emits no *)
(* path-parameter type diagnostic for the client's argument in that        *)
(* position, whatever the argument's type.                                 *)
(***************************************************************************)
\* the path-parameter type diagnostics for the i-th argument of the j-th call
ParamTypeDiags(j, i) ==
    {n \in OfCall(j) : /\ diags[n].msg = "Client has wrong type for path parameter"
                       /\ diags[n].pos = <<"call", j, "arg", i>>}

C28_UnreadParamNotCompared ==
    \A j \in 1..Len(calls) :
        LET key == clientNormalizedRoute(ClientRouteOf(j))
        IN key \in DOMAIN routes =>
              \A i \in 1..Len(routes[key].pathParams) :
                  routes[key].pathParams[i].typ = NilType => ParamTypeDiags(j, i) = {}


(***************************************************************************)
(* The analyzer on handlers made of every operation of Context: run has    *)
(* found both files and visits a route map of one element whose handler is *)
(* a sequence of calls, one call for each method of Context.               *)
(***************************************************************************)
\* greatest number of calls of a handler in SpecOps
MaxOps == 2

cDecodeLimit(t) == Call("DecodeLimit", t, NoT, None, 0)

\* one call of each method of Context (Custom, a marker for the analyzer
\* that does nothing at run time, left aside)
OpCalls ==
    <<cError, cCheck, cEncode(TString, 0), cDecode(NewPointer(TString)),
      cDecodeLimit(NewPointer(TString)), cDecodeParam(nN, NewPointer(TInt)),
      cDecodeForm(nK, NewPointer(TInt)), cPathParam(nN, 0)>>

\* the c-th handler of len calls: func(jc jape.Context) { jc.X(..); jc.Y(..); .. }
opsHandler(len, c) ==
    Handler([k \in 1..len |->
                OpCalls[((c \div Pow(Len(OpCalls), k - 1)) % Len(OpCalls)) + 1]],
            <<Block([k \in 1..(len + 1) |-> IF k <= len THEN Stmt(<<k>>) ELSE Ret], <<>>)>>)

\* the route map's one element
ParseOpsRoute ==
    /\ pc = "server"
    /\ elts = <<>>
    /\ \E m \in 1..Len(ExtractMethods), len \in 0..MaxOps :
          \E c \in 0..(Pow(Len(OpCalls), len) - 1) :
             ParseElt(Elt(ExtractMethods[m], pHello, opsHandler(len, c)), 1)

NextOps ==
    \/ ParseOpsRoute
    \/ CheckBlock

SpecOps == InitExtract /\ [][NextOps]_vars

\* the methods of Context that can write to the ResponseWriter: Error by
\* http.Error, Check, DecodeLimit, DecodeParam and DecodeForm by c.Error,
\* Decode by DecodeLimit, Encode by WriteHeader and the encoder
CanWrite ==
    {"Error", "Check", "Encode", "Decode", "DecodeLimit", "DecodeParam", "DecodeForm"}

\* the methods of Context that decode c.Request.Body
DecodesBody == {"Decode", "DecodeLimit"}

(***************************************************************************)
(* C30.  The analyzer agrees with the runtime: every operation of Context  *)
(* that can write a response at run time (Error, Check, Encode, Decode,    *)
(* DecodeLimit, DecodeParam, DecodeForm) is a write for the                *)
(* single-response checker, and every operation that decodes the request   *)
(* body (Decode, DecodeLimit) is recorded as the route's request type by   *)
(* the extraction.                                                         *)
(***************************************************************************)
\* the calls of the i-th element's handler that decode the body
BodyDecodes(i) ==
    {k \in 1..Len(elts[i].handler.calls) : elts[i].handler.calls[k].m \in DecodesBody}

C30_AnalyzerAgreesWithRuntime ==
    \A i \in 1..Len(elts) :
        LET h == elts[i].handler
        IN /\ \A k \in 1..Len(h.calls) : h.calls[k].m \in CanWrite => isWrite(h.calls[k])
           /\ (Parsed(i).ok /\ Parsed(i).diags = <<>> /\ BodyDecodes(i) # {})
                 => \E k \in BodyDecodes(i) : Parsed(i).r.request = h.calls[k].t


(***************************************************************************)
(* Context.Check, DecodeParam and DecodeForm.  The value v points at is    *)
(* [kind, val], kind one of "string", "int" and "bool"; a method yields    *)
(* [w, err, target]: the ResponseWriter after the call, the error returned *)
(* and what v points at after the call.                                    *)
(***************************************************************************)
StatusInternalServerError == 500

\* the longest path parameter and form value of a request
MaxText == 2

TextBytes == <<"1", "-", "t", "x">>

\* the c-th text of k bytes
Text(k, c) == [i \in 1..k |-> TextBytes[((c \div Pow(Len(TextBytes), i - 1)) % Len(TextBytes)) + 1]]

\* the value of a string of digits
RECURSIVE digits(_, _)
digits(s, acc) == IF s = <<>> THEN acc ELSE digits(Tail(s), 10 * acc + 1)

\* strconv.Atoi: [ok, val], val 0 when the syntax is wrong
Atoi(s) ==
    LET signed == s # <<>> /\ s[1] \in {"+", "-"}
        num == IF signed THEN Tail(s) ELSE s
    IN IF num = <<>> \/ \E i \in 1..Len(num) : num[i] # "1"
       THEN [ok |-> FALSE, val |-> 0]
       ELSE [ok |-> TRUE,
             val |-> IF signed /\ s[1] = "-" THEN 0 - digits(num, 0) ELSE digits(num, 0)]

\* strconv.ParseBool: [ok, val]
ParseBool(s) ==
    IF s \in {<<"1">>, <<"t">>} THEN [ok |-> TRUE, val |-> TRUE]
    ELSE [ok |-> FALSE, val |-> FALSE]

\* the switch on the type of v, common to DecodeParam and DecodeForm:
\* [ok, val], val what *v is assigned
parseInto(kind, value) ==
    CASE kind = "string" -> [ok |-> TRUE, val |-> value]
      [] kind = "int" -> Atoi(value)
      [] OTHER -> ParseBool(value)

\* Context.Check(msg, err)
Check(wr, msg, err) ==
    IF ~err.ok
    THEN LET e == Error(wr, msg \o <<": ">> \o err.msg, StatusInternalServerError)
         IN [w |-> e.w, err |-> e.err, target |-> <<>>]
    ELSE [w |-> wr, err |-> NilError, target |-> <<>>]

\* Context.PathParam(param) on a request whose parameter has the value value
PathParam(value) == value

\* Context.DecodeParam(param, v)
DecodeParam(wr, value, v) ==
    LET p == parseInto(v.kind, PathParam(value))
        e == Error(wr, <<"couldn't parse param: ">> \o PathParam(value), StatusBadRequest)
    IN IF ~p.ok THEN [w |-> e.w, err |-> e.err, target |-> [v EXCEPT !.val = p.val]]
       ELSE [w |-> wr, err |-> NilError, target |-> [v EXCEPT !.val = p.val]]

\* DecodeForm without the test for the empty form value
DecodeFormNoEmpty(wr, value, v) ==
    LET p == parseInto(v.kind, value)
        e == Error(wr, <<"invalid form value: ">> \o value, StatusBadRequest)
    IN IF ~p.ok THEN [w |-> e.w, err |-> e.err, target |-> [v EXCEPT !.val = p.val]]
       ELSE [w |-> wr, err |-> NilError, target |-> [v EXCEPT !.val = p.val]]

\* Context.DecodeForm(key, v) on a request whose FormValue(key) is value
DecodeForm(wr, value, v) ==
    IF value = <<>> THEN [w |-> wr, err |-> NilError, target |-> v]
    ELSE LET p == parseInto(v.kind, value)
             e == Error(wr, <<"invalid form value: ">> \o value, StatusBadRequest)
         IN IF ~p.ok THEN [w |-> e.w, err |-> e.err, target |-> [v EXCEPT !.val = p.val]]
            ELSE [w |-> wr, err |-> NilError, target |-> [v EXCEPT !.val = p.val]]

(***************************************************************************)
(* One exchange with a handler that calls one method of Context, keeps     *)
(* what it returns and returns: a peer sends a POST request with a body,   *)
(* or one with a path parameter and a form value.                          *)
(***************************************************************************)
\* what the handler's variable holds before the call
Vars ==
    <<[kind |-> "string", val |-> <<"x">>], [kind |-> "int", val |-> 7],
      [kind |-> "bool", val |-> TRUE]>>

\* the errors a handler hands to Check
Errs == <<NilError, NewError(<<"x">>)>>

PeerSendText ==
    /\ rpc = "idle"
    /\ \E k1 \in 0..MaxText, k2 \in 0..MaxText :
         \E c1 \in 0..(Pow(Len(TextBytes), k1) - 1), c2 \in 0..(Pow(Len(TextBytes), k2) - 1) :
            hreq' = [method |-> "POST", body |-> <<>>, client |-> FALSE,
                     resp |-> FALSE, param |-> Text(k1, c1), form |-> Text(k2, c2)]
    /\ rpc' = "sent"
    /\ UNCHANGED <<rw, hret, cret>>
    /\ UNCHANGED avars

\* func(c Context) { err = c.Check("x", e) }
CtxCheck ==
    /\ rpc = "sent"
    /\ \E i \in 1..Len(Errs) :
         LET res == Check(NewWriter, <<"x">>, Errs[i])
         IN /\ rw' = res.w
            /\ hret' = [handler |-> "Check", res |-> res, before |-> <<>>]
    /\ rpc' = "served"
    /\ UNCHANGED <<hreq, cret>>
    /\ UNCHANGED avars

\* func(c Context) { err = c.Decode(&v) }
CtxDecode ==
    /\ rpc = "sent"
    /\ LET d == Decode(NewWriter, hreq.body)
       IN /\ rw' = d.w
          /\ hret' = [handler |-> "Decode", res |-> [w |-> d.w, err |-> d.err, target |-> d.len],
                      before |-> 0]
    /\ rpc' = "served"
    /\ UNCHANGED <<hreq, cret>>
    /\ UNCHANGED avars

\* func(c Context) { err = c.DecodeLimit(&v, n) }
CtxDecodeLimit ==
    /\ rpc = "sent"
    /\ \E n \in 0..MaxLimit :
         LET d == DecodeLimit(NewWriter, hreq.body, n)
         IN /\ rw' = d.w
            /\ hret' = [handler |-> "DecodeLimit",
                        res |-> [w |-> d.w, err |-> d.err, target |-> d.len], before |-> 0]
    /\ rpc' = "served"
    /\ UNCHANGED <<hreq, cret>>
    /\ UNCHANGED avars

\* func(c Context) { err = c.DecodeParam("p", &v) }
CtxDecodeParam ==
    /\ rpc = "sent"
    /\ "param" \in DOMAIN hreq
    /\ \E i \in 1..Len(Vars) :
         LET res == DecodeParam(NewWriter, hreq.param, Vars[i])
         IN /\ rw' = res.w
            /\ hret' = [handler |-> "DecodeParam", res |-> res, before |-> Vars[i]]
    /\ rpc' = "served"
    /\ UNCHANGED <<hreq, cret>>
    /\ UNCHANGED avars

\* func(c Context) { err = c.DecodeForm("k", &v) }
CtxDecodeForm ==
    /\ rpc = "sent"
    /\ "form" \in DOMAIN hreq
    /\ \E i \in 1..Len(Vars) :
         LET res == DecodeForm(NewWriter, hreq.form, Vars[i])
         IN /\ rw' = res.w
            /\ hret' = [handler |-> "DecodeForm", res |-> res, before |-> Vars[i]]
    /\ rpc' = "served"
    /\ UNCHANGED <<hreq, cret>>
    /\ UNCHANGED avars

NextCtx ==
    \/ PeerSend
    \/ PeerSendText
    \/ CtxCheck
    \/ CtxDecode
    \/ CtxDecodeLimit
    \/ CtxDecodeParam
    \/ CtxDecodeForm

SpecCtx == InitRuntime /\ [][NextCtx]_vars

(***************************************************************************)
(* C27.  Each of Context.Check, Decode, DecodeLimit, DecodeParam and       *)
(* DecodeForm writes an error response exactly when it returns a non-nil   *)
(* error, and writes nothing to the response when it returns nil;          *)
(* DecodeForm on an empty form value returns nil and leaves v unchanged.   *)
(***************************************************************************)
\* the handler has called a method of Context and returned
CtxServed ==
    /\ rpc = "served"
    /\ hret.handler \in {"Check", "Decode", "DecodeLimit", "DecodeParam", "DecodeForm"}

\* the response is the error err, written by http.Error
IsErrorResponse(wr, err) ==
    /\ wr.status \in {StatusBadRequest, StatusRequestEntityTooLarge, StatusInternalServerError}
    /\ wr.body = err.msg \o <<"\n">>

C27_ErrorWrittenIffReturned ==
    CtxServed =>
        /\ IF hret.res.err.ok THEN rw = NewWriter
           ELSE IsErrorResponse(rw, hret.res.err)
        /\ (hret.handler = "DecodeForm" /\ hreq.form = <<>>) =>
              /\ hret.res.err.ok
              /\ hret.res.target = hret.before

\* DecodeForm has returned nil for an empty form value and an int, and
\* written nothing
C27_Witness ==
    /\ CtxServed
    /\ hret.handler = "DecodeForm"
    /\ hreq.form = <<>>
    /\ hret.before.kind = "int"
    /\ hret.res.err.ok
    /\ rw = NewWriter

====
